---- MODULE Spec2Model ----
(***************************************************************************)
(* A model of vmtest's VM orchestration: Qemu::run (src/src/qemu.rs) with  *)
(* its two output streamer threads and the hypervisor as environment, and  *)
(* of config validation and target dispatch (src/src/vmtest.rs).           *)
(*                                                                         *)
(* Spec        the run of one target: orchestrator thread, stdout streamer,*)
(*             command-output streamer, hypervisor child, socket files.    *)
(* SpecVmtest  Vmtest::new (validate_config) and Vmtest::run_one.          *)
(***************************************************************************)
EXTENDS Integers, Sequences, FiniteSets, TLC

(***************************************************************************)
(* Bounds of the model.                                                    *)
(***************************************************************************)
\* line events (Boot, Setup, Command) sent in one run, over all senders
MaxLines == 2
\* entries of the target's vm.mounts
MaxMounts == 1
\* entries of the vm.mounts table a Qemu is built for
MaxVmMounts == 2
\* targets of a config
MaxTargets == 2
\* major and minor number of the guest agent's version
MaxMajor == 9
MaxMinor == 2
\* normal components of a path given to guest_init_path
MaxPathLen == 3
MaxPolls == 6

(***************************************************************************)
(* Program constants.                                                      *)
(***************************************************************************)
\* for i in 0..5 in mount_in_guest
MountAttempts == 5
\* exit code of mount(1) that is retried
MountRetryCode == 32

VARIABLES
    pc,            \* position of the orchestrator thread in Qemu::run
    chan,          \* every Output sent on the updates channel, in order
    child,         \* the hypervisor child: none | running | exited | reaped
    socks,         \* socket files that exist on the filesystem
    bootStreamer,  \* thread of stream_child_output: none | running | done
    cmdStream,     \* what run_command's output_stream is connected to
    cmdStreamer,   \* thread of stream_command_output: none | running | done
    nMounts,       \* number of entries of self.mounts
    mountIdx,      \* 0: the shared directory, k > 0: the k-th entry of mounts
    attempt,       \* i of the retry loop of mount_in_guest
    site,          \* the caller of the run_in_vm in progress
    rc,            \* result of the run_in_vm in progress
    status,        \* exitcode of the guest-exec-status reply that ended the poll
    config,        \* Config.target of the Vmtest under construction
    vmtest,        \* result of Vmtest::new: none | ok | err
    newErr,        \* the error validate_config returned
    runs,          \* what each call of run_one did, in order
    uiPc,          \* position of Ui::run: loop | recv | done
    uiLen,         \* targets.len() of Ui::run
    uiIdx,         \* idx of the loop of Ui::run
    uiRecv,        \* events target_ui has still to receive from its channel
    uiRc,          \* rc of target_ui
    uiFailed,      \* failed of Ui::run
    uiRet,         \* what Ui::run returned
    uiRan,         \* the Output streams of the targets run so far, in order
    uiToSend,      \* events the run in progress has still to send
    uiThreads,     \* per target: its run, its target_ui thread and its child
    gxImage,       \* self.image of the Qemu whose guest executions are observed
    gxVersion,     \* qga.version()
    gxPc,          \* the next guest execution of the run
    gxReqs,        \* the guest-exec requests sent to the agent, in order
    gipTmp,        \* guest_temp_dir of a call of guest_init_path
    gipHost,       \* host_init_path of that call
    gipRes,        \* what the call returned
    qnTarget,      \* the Target a Qemu is built for
    qnMounts,      \* the entries of target.vm.mounts, in iteration order
    qnState,       \* new | rejected | validated | built | rebuilt | mounted
                   \* | failed
    qnArgs,        \* the arguments of the Command that Qemu::new built
    qnArgs2,       \* the arguments a second Qemu::new built for the target
    qnGuest,       \* the commands the setup stage of run executes in the guest
    rvPc,          \* position of a call of run_in_vm
    rvPeriod,      \* period, in ms
    rvSleeps,      \* the thread::sleep(period) of the polling loop, in order
    rvLate,        \* now.elapsed() >= 30 s
    rvWarned,      \* the warning of the polling loop has been logged
    rvStatus,      \* the guest-exec-status reply with exited = true
    rvOut,         \* the lines given to output, in order
    rvRes,         \* what run_in_vm returned
    stKind,        \* the streamer: "boot" (stdout) or "command" (socket)
    stIn,          \* the characters its stream has still to deliver
    stPc,          \* reading | stopped
    stRead,        \* the lines read_line returned with Ok(n), n > 0, in order
    stOut,         \* the lines the streamer pushed, in order
    stBroken,      \* every read of the stream fails from now on
    stErrs,        \* the read errors logged on such a stream, modulo 2
    qgPc,          \* the caller of QgaWrapper::execute: idle | waiting | panicked
    qgCur,         \* the request execute is called with
    qgSent,        \* the number of calls of execute so far
    qgReqs,        \* the request channel (send_req -> recv_req)
    qgResps,       \* the response channel (send_resp -> recv_resp)
    qgGot,         \* per call that returned a response: the call and the response
    udPath,        \* the path connect_to_uds is called with
    udLive,        \* the sockets that accept a connection now
    udPc,          \* loop | final | done
    udTries,       \* the failed attempts of the loop
    udRes          \* what connect_to_uds returned

runVars == <<pc, chan, child, socks, bootStreamer, cmdStream, cmdStreamer,
             nMounts, mountIdx, attempt, site, rc, status>>
vmVars == <<config, vmtest, newErr, runs>>
\* Ui::run (src/src/ui.rs)
uiVars == <<uiPc, uiLen, uiIdx, uiRecv, uiRc, uiFailed, uiRet, uiRan,
            uiToSend, uiThreads>>
\* the guest-exec requests of run_in_vm (src/src/qemu.rs)
gxVars == <<gxImage, gxVersion, gxPc, gxReqs>>
\* a call of guest_init_path (src/src/qemu.rs)
gipVars == <<gipTmp, gipHost, gipRes>>
\* the argument vector of Qemu::new (src/src/qemu.rs)
qnVars == <<qnTarget, qnMounts, qnState, qnArgs, qnArgs2, qnGuest>>
\* a call of run_in_vm (src/src/qemu.rs)
rvVars == <<rvPc, rvPeriod, rvSleeps, rvLate, rvWarned, rvStatus, rvOut,
            rvRes>>
\* a streamer thread (src/src/qemu.rs)
stVars == <<stKind, stIn, stPc, stRead, stOut, stBroken, stErrs>>
\* QgaWrapper (src/src/qga.rs)
qgVars == <<qgPc, qgCur, qgSent, qgReqs, qgResps, qgGot>>
\* a call of connect_to_uds (src/src/qemu.rs)
udVars == <<udPath, udLive, udPc, udTries, udRes>>
otherVars == <<uiVars, gxVars, gipVars, qnVars, rvVars, stVars, qgVars,
               udVars>>
notUiVars == <<runVars, vmVars, gxVars, gipVars, qnVars, rvVars,
               stVars, qgVars, udVars>>
notGxVars == <<runVars, vmVars, uiVars, gipVars, qnVars, rvVars,
               stVars, qgVars, udVars>>
notGipVars == <<runVars, vmVars, uiVars, gxVars, qnVars, rvVars,
               stVars, qgVars, udVars>>
notQnVars == <<runVars, vmVars, uiVars, gxVars, gipVars, rvVars,
               stVars, qgVars, udVars>>
notRvVars == <<runVars, vmVars, uiVars, gxVars, gipVars, qnVars,
               stVars, qgVars, udVars>>
notStVars == <<runVars, vmVars, uiVars, gxVars, gipVars, qnVars, rvVars,
               qgVars, udVars>>
notQgVars == <<runVars, vmVars, uiVars, gxVars, gipVars, qnVars, rvVars,
               stVars, udVars>>
notUdVars == <<runVars, vmVars, uiVars, gxVars, gipVars, qnVars, rvVars,
               stVars, qgVars>>
vars == <<runVars, vmVars, otherVars>>

(***************************************************************************)
(* Output events (src/src/output.rs).  k is the variant, r the result of   *)
(* an *End variant, code the exit code of CommandEnd(Ok(code)), by the     *)
(* thread that sent it, ctx the context attached to the error.             *)
(***************************************************************************)
StartKinds == {"BootStart", "SetupStart", "CommandStart"}
EndKinds == {"BootEnd", "SetupEnd", "CommandEnd"}
LineKinds == {"Boot", "Setup", "Command"}

Output(k, r, code, by, ctx) ==
    [k |-> k, r |-> r, code |-> code, by |-> by, ctx |-> ctx]

Start(k) == Output(k, "-", 0, "orch", "-")
EndOk(k) == Output(k, "Ok", 0, "orch", "-")
EndErr(k, ctx) == Output(k, "Err", 0, "orch", ctx)
CommandEndOk(code) == Output("CommandEnd", "Ok", code, "orch", "-")
Line(k, by) == Output(k, "-", 0, by, "-")

SocketFiles == {"qga", "qmp", "cmdout"}

\* The sockets a connect() can reach: the files the running child listens on.
Live == IF child = "running" THEN socks ELSE {}


\* Result<i64> of run_in_vm.
Ok(code) == [ok |-> TRUE, code |-> code]
Err == [ok |-> FALSE, code |-> 0]

\* Option<i64>: the exitcode field of a guest-exec-status reply.
None == [some |-> FALSE, v |-> 0]
Some(v) == [some |-> TRUE, v |-> v]
ExitCodes == {None, Some(0), Some(1), Some(MountRetryCode)}

\* status.exitcode.unwrap_or(0)
UnwrapOr0(e) == IF e.some THEN e.v ELSE 0

\* connect_to_uds: retries path until the deadline, then makes its final
\* attempt on self.qmp_sock, whatever path was asked for.
ConnectToUds(path, live) ==
    IF path \in live THEN path
    ELSE IF "qmp" \in live THEN "qmp"
    ELSE "err"

Send(ev) == chan' = Append(chan, ev)

\* The run may send one more line event.
IsLine(ev) == ev.k \in LineKinds
MoreLines == Len(SelectSeq(chan, IsLine)) < MaxLines

(***************************************************************************)
(* Variables by who writes them.                                           *)
(***************************************************************************)
orchVars == <<pc, child, socks, bootStreamer, cmdStream, cmdStreamer>>
targetVars == <<nMounts>>
execVars == <<mountIdx, attempt, site, rc, status>>

(***************************************************************************)
(* The hypervisor child: the environment of the run.                       *)
(***************************************************************************)
\* The sockets in the order Qemu::new names them on the command line:
\* machine_protocol_args, guest_agent_args, virtio_serial_args.
SocketOrder == <<"qmp", "qga", "cmdout">>

\* The child creates the next socket named on its command line.
QemuCreateSock ==
    /\ child = "running"
    /\ Cardinality(socks) < Len(SocketOrder)
    /\ socks' = socks \cup {SocketOrder[Cardinality(socks) + 1]}
    /\ UNCHANGED <<pc, chan, child, bootStreamer, cmdStream,
                   cmdStreamer>>
    /\ UNCHANGED <<targetVars, execVars, vmVars, otherVars>>

\* The child exits by itself: an error at start-up, a guest panic with
\* -no-reboot, or the answer to the QMP quit.
QemuExit ==
    /\ child = "running"
    /\ child' = "exited"
    /\ UNCHANGED <<pc, chan, socks, bootStreamer, cmdStream,
                   cmdStreamer>>
    /\ UNCHANGED <<targetVars, execVars, vmVars, otherVars>>

(***************************************************************************)
(* The streamer threads.  A line is read when the streamer gets to it,     *)
(* which may be long after the child (-serial stdio) or the guest command  *)
(* (the virtio-serial port) wrote it, and after the writer has exited.     *)
(***************************************************************************)
\* stream_child_output: read_line returned Ok(n > 0); the line is sent as
\* Output::Boot.
BootStreamerLine ==
    /\ bootStreamer = "running"
    /\ MoreLines
    /\ Send(Line("Boot", "boot_streamer"))
    /\ UNCHANGED <<orchVars, targetVars, execVars, vmVars, otherVars>>

\* stream_child_output: read_line returned Ok(0): the child has exited and
\* the pipe is drained.
BootStreamerEof ==
    /\ bootStreamer = "running"
    /\ child # "running"
    /\ bootStreamer' = "done"
    /\ UNCHANGED <<pc, chan, child, socks, cmdStream, cmdStreamer>>
    /\ UNCHANGED <<targetVars, execVars, vmVars, otherVars>>

\* stream_command_output: read_line returned Ok(n > 0); the line is sent as
\* Output::Command.  The stream carries the guest command's output when it
\* is connected to the command-output socket.
CommandStreamerLine ==
    /\ cmdStreamer = "running"
    /\ cmdStream = "cmdout"
    /\ MoreLines
    /\ Send(Line("Command", "cmd_streamer"))
    /\ UNCHANGED <<orchVars, targetVars, execVars, vmVars, otherVars>>

\* stream_command_output: read_line returned Ok(0): the child has exited and
\* the stream is drained.
CommandStreamerEof ==
    /\ cmdStreamer = "running"
    /\ child # "running"
    /\ cmdStreamer' = "done"
    /\ UNCHANGED <<pc, chan, child, socks, bootStreamer, cmdStream>>
    /\ UNCHANGED <<targetVars, execVars, vmVars, otherVars>>

(***************************************************************************)
(* The orchestrator thread: Qemu::run.                                     *)
(***************************************************************************)
\* let _ = self.updates.send(Output::BootStart)
RunBootStart ==
    /\ pc = "start"
    /\ Send(Start("BootStart"))
    /\ pc' = "spawn"
    /\ UNCHANGED <<child, socks, bootStreamer, cmdStream, cmdStreamer>>
    /\ UNCHANGED <<targetVars, execVars, vmVars, otherVars>>

\* self.process.spawn() is Ok: stream_child_output starts the stdout
\* streamer and the scope guard takes the child.
RunSpawnOk ==
    /\ pc = "spawn"
    /\ child' = "running"
    /\ bootStreamer' = "running"
    /\ pc' = "wait_for_qemu"
    /\ UNCHANGED <<chan, socks, cmdStream, cmdStreamer>>
    /\ UNCHANGED <<targetVars, execVars, vmVars, otherVars>>

\* self.process.spawn() is Err: BootEnd(Err) and return; only self is dropped.
RunSpawnErr ==
    /\ pc = "spawn"
    /\ Send(EndErr("BootEnd", "-"))
    /\ pc' = "drop"
    /\ UNCHANGED <<child, socks, bootStreamer, cmdStream, cmdStreamer>>
    /\ UNCHANGED <<targetVars, execVars, vmVars, otherVars>>

\* wait_for_qemu returns Ok(()): both the QGA and the QMP socket exist.
WaitForQemuOk ==
    /\ pc = "wait_for_qemu"
    /\ {"qga", "qmp"} \subseteq socks
    /\ pc' = "connect_qmp"
    /\ UNCHANGED <<chan, child, socks, bootStreamer, cmdStream,
                   cmdStreamer>>
    /\ UNCHANGED <<targetVars, execVars, vmVars, otherVars>>

\* wait_for_qemu bails after 5 s: run sends BootEnd(Err) and, having no
\* return in that branch, goes on to connect to the QMP socket.
WaitForQemuTimeout ==
    /\ pc = "wait_for_qemu"
    /\ ~({"qga", "qmp"} \subseteq socks)
    /\ Send(EndErr("BootEnd", "-"))
    /\ pc' = "connect_qmp"
    /\ UNCHANGED <<child, socks, bootStreamer, cmdStream, cmdStreamer>>
    /\ UNCHANGED <<targetVars, execVars, vmVars, otherVars>>

\* self.connect_to_uds(&self.qmp_sock)
ConnectQmp ==
    /\ pc = "connect_qmp"
    /\ pc' = IF ConnectToUds("qmp", Live) = "err" THEN "stderr_connect"
             ELSE "qmp_handshake"
    /\ UNCHANGED <<chan, child, socks, bootStreamer, cmdStream,
                   cmdStreamer>>
    /\ UNCHANGED <<targetVars, execVars, vmVars, otherVars>>

\* qmp.handshake() is Ok: the running child answered.
QmpHandshakeOk ==
    /\ pc = "qmp_handshake"
    /\ child = "running"
    /\ pc' = "qga_new"
    /\ UNCHANGED <<chan, child, socks, bootStreamer, cmdStream,
                   cmdStreamer>>
    /\ UNCHANGED <<targetVars, execVars, vmVars, otherVars>>

\* qmp.handshake() is Err.
QmpHandshakeErr ==
    /\ pc = "qmp_handshake"
    /\ pc' = "stderr_handshake"
    /\ UNCHANGED <<chan, child, socks, bootStreamer, cmdStream,
                   cmdStreamer>>
    /\ UNCHANGED <<targetVars, execVars, vmVars, otherVars>>

\* BootEndWithStderr without the .context(err) of the child's stderr.
BootEndWithoutStderr ==
    /\ pc \in {"stderr_connect", "stderr_handshake"}
    /\ child # "running"
    /\ Send(EndErr("BootEnd", "-"))
    /\ pc' = "cleanup"
    /\ UNCHANGED <<child, socks, bootStreamer, cmdStream, cmdStreamer>>
    /\ UNCHANGED <<targetVars, execVars, vmVars, otherVars>>

\* extract_child_stderr reads the child's stderr to its end, which comes when
\* the child has exited; then BootEnd(Err) with that context, and return.
BootEndWithStderr ==
    /\ pc \in {"stderr_connect", "stderr_handshake"}
    /\ child # "running"
    /\ Send(EndErr("BootEnd", "stderr"))
    /\ pc' = "cleanup"
    /\ UNCHANGED <<child, socks, bootStreamer, cmdStream, cmdStreamer>>
    /\ UNCHANGED <<targetVars, execVars, vmVars, otherVars>>

\* QgaNewOk with the send of BootEnd(Ok(())) left out.
QgaNewOkNoBootEnd ==
    /\ pc = "qga_new"
    /\ child = "running"
    /\ socks = SocketFiles
    /\ pc' = "setup_start"
    /\ UNCHANGED <<chan, child, socks, bootStreamer, cmdStream, cmdStreamer>>
    /\ UNCHANGED <<targetVars, execVars, vmVars, otherVars>>

\* QgaWrapper::new is Ok (the guest agent answered the sync, so the child has
\* finished its start-up and runs the guest): BootEnd(Ok(())).
QgaNewOk ==
    /\ pc = "qga_new"
    /\ child = "running"
    /\ socks = SocketFiles
    /\ Send(EndOk("BootEnd"))
    /\ pc' = "setup_start"
    /\ UNCHANGED <<child, socks, bootStreamer, cmdStream, cmdStreamer>>
    /\ UNCHANGED <<targetVars, execVars, vmVars, otherVars>>

\* QgaWrapper::new is Err (timed out waiting for the agent): BootEnd(Err),
\* return.
QgaNewErr ==
    /\ pc = "qga_new"
    /\ Send(EndErr("BootEnd", "-"))
    /\ pc' = "cleanup"
    /\ UNCHANGED <<child, socks, bootStreamer, cmdStream, cmdStreamer>>
    /\ UNCHANGED <<targetVars, execVars, vmVars, otherVars>>

\* SetupStart, then mount_in_guest of the shared directory calls
\* run_in_vm(mkdir).
RunSetupStart ==
    /\ pc = "setup_start"
    /\ Send(Start("SetupStart"))
    /\ mountIdx' = 0
    /\ site' = "mkdir"
    /\ pc' = "exec"
    /\ UNCHANGED <<child, socks, bootStreamer, cmdStream, cmdStreamer, attempt, rc,
                   status>>
    /\ UNCHANGED <<targetVars, vmVars, otherVars>>

(***************************************************************************)
(* run_in_vm, called from mount_in_guest (mkdir, mount), run_command       *)
(* (command) and sync.                                                     *)
(***************************************************************************)
\* The Output variant the caller's output closure sends; sync's closure
\* drops the line.
LineKindOf(s) ==
    CASE s \in {"mkdir", "mount"} -> "Setup"
      [] s = "command" -> "Command"
      [] OTHER -> "none"

\* qga.guest_exec is Ok; with Some(output_stream) the command-output
\* streamer is started.
RunInVmExecOk ==
    /\ pc = "exec"
    /\ child = "running"
    /\ cmdStreamer' = IF site = "command" THEN "running" ELSE cmdStreamer
    /\ pc' = "poll"
    /\ UNCHANGED <<chan, child, socks, bootStreamer, cmdStream>>
    /\ UNCHANGED <<targetVars, execVars, vmVars, otherVars>>

\* qga.guest_exec is Err: run_in_vm returns it.
RunInVmExecErr ==
    /\ pc = "exec"
    /\ rc' = Err
    /\ pc' = "ret"
    /\ UNCHANGED <<chan, child, socks, bootStreamer, cmdStream,
                   cmdStreamer, mountIdx, attempt, site, status>>
    /\ UNCHANGED <<targetVars, vmVars, otherVars>>

\* The exit codes the model draws for a guest process: none reported, 0, 1,
\* and for mount(1) also 32.
ExitCodesOf(s) ==
    IF s = "mount" THEN ExitCodes ELSE ExitCodes \ {Some(MountRetryCode)}

\* qga.guest_exec_status reports exited = true, with or without an exit
\* code.
RunInVmPollExited ==
    /\ pc = "poll"
    /\ child = "running"
    /\ \E e \in ExitCodesOf(site) :
          /\ status' = e
          /\ rc' = Ok(UnwrapOr0(e))
    /\ pc' = "flush"
    /\ UNCHANGED <<chan, child, socks, bootStreamer, cmdStream,
                   cmdStreamer, mountIdx, attempt, site>>
    /\ UNCHANGED <<targetVars, vmVars, otherVars>>

\* qga.guest_exec_status is Err: run_in_vm returns it.
RunInVmPollErr ==
    /\ pc = "poll"
    /\ rc' = Err
    /\ pc' = "ret"
    /\ UNCHANGED <<chan, child, socks, bootStreamer, cmdStream,
                   cmdStreamer, mountIdx, attempt, site, status>>
    /\ UNCHANGED <<targetVars, vmVars, otherVars>>

\* output(line.to_string()) for one more line of the status' out_data or
\* err_data; sync's closure drops the line.
RunInVmFlushLine ==
    /\ pc = "flush"
    /\ LineKindOf(site) # "none"
    /\ MoreLines
    /\ Send(Line(LineKindOf(site), "orch"))
    /\ UNCHANGED <<pc, child, socks, bootStreamer, cmdStream,
                   cmdStreamer, mountIdx, attempt, site, rc, status>>
    /\ UNCHANGED <<targetVars, vmVars, otherVars>>

\* run_in_vm has returned rc to its caller.
Returned(s) ==
    /\ site = s
    /\ \/ pc = "ret"
       \/ pc = "flush"

\* No run_in_vm is in progress.
ExecIdle ==
    /\ mountIdx' = 0
    /\ attempt' = 0
    /\ site' = "none"
    /\ rc' = Ok(0)
    /\ status' = None

(***************************************************************************)
(* mount_in_guest and the setup stage of run.                              *)
(***************************************************************************)
\* What mount_in_guest does with the result r of the mkdir.
MkdirOutcome(r) ==
    IF ~r.ok THEN "fail"
    ELSE IF r.code # 0 THEN "fail"
    ELSE "mount"

\* MountOutcome that retries after every non-zero exit code.
MountOutcomeRetryAny(r, i) ==
    IF ~r.ok THEN "fail"
    ELSE IF r.code # 0 /\ i + 1 < MountAttempts THEN "retry"
    ELSE IF r.code # 0 THEN "fail"
    ELSE "ok"

\* MountOutcome without the check of rc after the retry loop.
MountOutcomeNoFinalCheck(r, i) ==
    IF ~r.ok THEN "fail"
    ELSE IF r.code = MountRetryCode /\ i + 1 < MountAttempts THEN "retry"
    ELSE "ok"

\* What mount_in_guest does with the result r of attempt i of the mount:
\* retry on exit code 32 while attempts are left, fail on an error or on a
\* non-zero code the loop ended with.
MountOutcome(r, i) ==
    IF ~r.ok THEN "fail"
    ELSE IF r.code = MountRetryCode /\ i + 1 < MountAttempts THEN "retry"
    ELSE IF r.code # 0 THEN "fail"
    ELSE "ok"

\* mount_in_guest returned Err: SetupEnd(Err) and return.
SetupFail ==
    /\ \/ Returned("mkdir") /\ MkdirOutcome(rc) = "fail"
       \/ Returned("mount") /\ MountOutcome(rc, attempt) = "fail"
    /\ Send(EndErr("SetupEnd", "-"))
    /\ pc' = "cleanup"
    /\ ExecIdle
    /\ UNCHANGED <<child, socks, bootStreamer, cmdStream, cmdStreamer>>
    /\ UNCHANGED <<targetVars, vmVars, otherVars>>

\* mkdir -p exited with 0: the retry loop starts with i = 0.
MkdirDone ==
    /\ Returned("mkdir") /\ MkdirOutcome(rc) = "mount"
    /\ attempt' = 0
    /\ site' = "mount"
    /\ rc' = Ok(0)
    /\ status' = None
    /\ pc' = "exec"
    /\ UNCHANGED <<chan, child, socks, bootStreamer, cmdStream,
                   cmdStreamer, mountIdx>>
    /\ UNCHANGED <<targetVars, vmVars, otherVars>>

\* mount exited with 32: sleep i seconds and continue with i + 1.
MountRetry ==
    /\ Returned("mount") /\ MountOutcome(rc, attempt) = "retry"
    /\ attempt' = attempt + 1
    /\ rc' = Ok(0)
    /\ status' = None
    /\ pc' = "exec"
    /\ UNCHANGED <<chan, child, socks, bootStreamer, cmdStream,
                   cmdStreamer, mountIdx, site>>
    /\ UNCHANGED <<targetVars, vmVars, otherVars>>

\* mount_in_guest returned Ok(()) and an entry of self.mounts is left.
MountNext ==
    /\ Returned("mount") /\ MountOutcome(rc, attempt) = "ok"
    /\ mountIdx < nMounts
    /\ mountIdx' = mountIdx + 1
    /\ attempt' = 0
    /\ site' = "mkdir"
    /\ rc' = Ok(0)
    /\ status' = None
    /\ pc' = "exec"
    /\ UNCHANGED <<chan, child, socks, bootStreamer, cmdStream,
                   cmdStreamer>>
    /\ UNCHANGED <<targetVars, vmVars, otherVars>>

\* Every mount_in_guest returned Ok(()): SetupEnd(Ok(())).
RunSetupEndOk ==
    /\ Returned("mount") /\ MountOutcome(rc, attempt) = "ok"
    /\ mountIdx >= nMounts
    /\ Send(EndOk("SetupEnd"))
    /\ pc' = "command_start"
    /\ ExecIdle
    /\ UNCHANGED <<child, socks, bootStreamer, cmdStream, cmdStreamer>>
    /\ UNCHANGED <<targetVars, vmVars, otherVars>>

(***************************************************************************)
(* The command stage, sync and quit.                                       *)
(***************************************************************************)
\* RunCommandStart with the send of CommandStart left out.
RunCommandStartNotSent ==
    /\ pc = "command_start"
    /\ pc' = "connect_cmd"
    /\ UNCHANGED <<chan, child, socks, bootStreamer, cmdStream, cmdStreamer>>
    /\ UNCHANGED <<targetVars, execVars, vmVars, otherVars>>

\* let _ = self.updates.send(Output::CommandStart)
RunCommandStart ==
    /\ pc = "command_start"
    /\ Send(Start("CommandStart"))
    /\ pc' = "connect_cmd"
    /\ UNCHANGED <<child, socks, bootStreamer, cmdStream, cmdStreamer>>
    /\ UNCHANGED <<targetVars, execVars, vmVars, otherVars>>

\* run_command: connect_to_uds(&self.command_sock); on Ok run_in_vm(bash -c),
\* on Err run_command returns it, run sends CommandEnd(Err) and goes on to
\* sync.
RunCommandConnect ==
    /\ pc = "connect_cmd"
    /\ LET s == ConnectToUds("cmdout", Live) IN
        IF s = "err"
        THEN /\ Send(EndErr("CommandEnd", "-"))
             /\ site' = "sync"
             /\ UNCHANGED cmdStream
        ELSE /\ cmdStream' = s
             /\ site' = "command"
             /\ UNCHANGED chan
    /\ pc' = "exec"
    /\ UNCHANGED <<child, socks, bootStreamer, cmdStreamer,
                   mountIdx, attempt, rc, status>>
    /\ UNCHANGED <<targetVars, vmVars, otherVars>>

\* CommandEndOf that takes a non-zero exit code for a failure of the run.
CommandEndOfNonZeroErr(r) ==
    IF r.ok /\ r.code = 0 THEN CommandEndOk(0) ELSE EndErr("CommandEnd", "-")

\* The event run sends for the result r of run_command.
CommandEndOf(r) ==
    IF r.ok THEN CommandEndOk(r.code) ELSE EndErr("CommandEnd", "-")

\* RunCommandEnd that returns from run after CommandEnd(Err).
RunCommandEndErrReturns ==
    /\ Returned("command")
    /\ Send(CommandEndOf(rc))
    /\ site' = IF rc.ok THEN "sync" ELSE "none"
    /\ rc' = Ok(0)
    /\ status' = None
    /\ pc' = IF rc.ok THEN "exec" ELSE "cleanup"
    /\ UNCHANGED <<child, socks, bootStreamer, cmdStream, cmdStreamer,
                   mountIdx, attempt>>
    /\ UNCHANGED <<targetVars, vmVars, otherVars>>

\* run_command returned: CommandEnd(Ok(rc)) or CommandEnd(Err), then
\* self.sync(&qga) calls run_in_vm(sync).
RunCommandEnd ==
    /\ Returned("command")
    /\ Send(CommandEndOf(rc))
    /\ site' = "sync"
    /\ rc' = Ok(0)
    /\ status' = None
    /\ pc' = "exec"
    /\ UNCHANGED <<child, socks, bootStreamer, cmdStream, cmdStreamer,
                   mountIdx, attempt>>
    /\ UNCHANGED <<targetVars, vmVars, otherVars>>

\* RunSyncDone that reports a failed sync as CommandEnd(Err).
RunSyncDoneSendsErr ==
    /\ Returned("sync")
    /\ pc' = "quit"
    /\ ExecIdle
    /\ IF rc = Ok(0) THEN chan' = chan ELSE Send(EndErr("CommandEnd", "-"))
    /\ UNCHANGED <<child, socks, bootStreamer, cmdStream, cmdStreamer>>
    /\ UNCHANGED <<targetVars, vmVars, otherVars>>

\* sync returned; its failure is only logged.
RunSyncDone ==
    /\ Returned("sync")
    /\ pc' = "quit"
    /\ ExecIdle
    /\ UNCHANGED <<chan, child, socks, bootStreamer, cmdStream,
                   cmdStreamer>>
    /\ UNCHANGED <<targetVars, vmVars, otherVars>>

\* qmp.execute(&qmp::quit {}) is Ok: run waits for the child.
QmpQuitOk ==
    /\ pc = "quit"
    /\ child = "running"
    /\ pc' = "wait_child"
    /\ UNCHANGED <<chan, child, socks, bootStreamer, cmdStream,
                   cmdStreamer>>
    /\ UNCHANGED <<targetVars, execVars, vmVars, otherVars>>

\* qmp.execute(&qmp::quit {}) is Err: logged, run ends.
QmpQuitErr ==
    /\ pc = "quit"
    /\ pc' = "cleanup"
    /\ UNCHANGED <<chan, child, socks, bootStreamer, cmdStream,
                   cmdStreamer>>
    /\ UNCHANGED <<targetVars, execVars, vmVars, otherVars>>

\* child.wait() returns once the child has exited.
ChildWait ==
    /\ pc = "wait_child"
    /\ child = "exited"
    /\ child' = "reaped"
    /\ pc' = "cleanup"
    /\ UNCHANGED <<chan, socks, bootStreamer, cmdStream, cmdStreamer>>
    /\ UNCHANGED <<targetVars, execVars, vmVars, otherVars>>

(***************************************************************************)
(* What runs when run returns: the scope guard (child_cleanup), then Drop  *)
(* for Qemu.                                                               *)
(***************************************************************************)
\* child_cleanup that only collects a child that has already exited.
ChildAfterCleanupNoKill(c) == IF c = "running" THEN "running" ELSE "reaped"

\* child_cleanup: try_wait; a child still alive is killed and waited for.
ChildAfterCleanup(c) == "reaped"

\* The return of run without the scope guard: Qemu is dropped with the child
\* as it is.
ChildCleanupDefused ==
    /\ pc = "cleanup"
    /\ pc' = "drop"
    /\ UNCHANGED <<chan, child, socks, bootStreamer, cmdStream, cmdStreamer>>
    /\ UNCHANGED <<targetVars, execVars, vmVars, otherVars>>

ChildCleanup ==
    /\ pc = "cleanup"
    /\ child' = ChildAfterCleanup(child)
    /\ pc' = "drop"
    /\ UNCHANGED <<chan, socks, bootStreamer, cmdStream, cmdStreamer>>
    /\ UNCHANGED <<targetVars, execVars, vmVars, otherVars>>

\* Drop for Qemu that leaves the command-output socket behind.
SocksAfterDropTwo(fs) == (fs \ {"qga"}) \ {"qmp"}

\* Drop for Qemu: remove_file of the three socket paths.
SocksAfterDrop(fs) == ((fs \ {"qga"}) \ {"qmp"}) \ {"cmdout"}

DropQemu ==
    /\ pc = "drop"
    /\ socks' = SocksAfterDrop(socks)
    /\ pc' = "done"
    /\ UNCHANGED <<chan, child, bootStreamer, cmdStream, cmdStreamer>>
    /\ UNCHANGED <<targetVars, execVars, vmVars, otherVars>>

(***************************************************************************)
(* The run of one target.                                                  *)
(***************************************************************************)
NoError == [rule |-> "-", target |-> "-", idx |-> -1]

VmtestIdle ==
    /\ config = <<>>
    /\ vmtest = "none"
    /\ newErr = NoError
    /\ runs = {}

\* Ui::run has not been called.
UiIdle ==
    /\ uiPc = "loop"
    /\ uiLen = 0
    /\ uiIdx = 0
    /\ uiRecv = <<>>
    /\ uiRc = Some(0)
    /\ uiFailed = 0
    /\ uiRet = None
    /\ uiRan = <<>>
    /\ uiToSend = <<>>
    /\ uiThreads = <<>>

\* No guest execution is observed.
GxIdle ==
    /\ gxImage = FALSE
    /\ gxVersion = [major |-> 0, minor |-> 0]
    /\ gxPc = "mkdir"
    /\ gxReqs = <<>>

\* A path as Path::components sees it: whether it starts with the root, and
\* its normal components; trailing tells whether the string it was made from
\* ends with a separator, which components() ignores.
Path(root, names, trailing) ==
    [root |-> root, names |-> names, trailing |-> trailing]

\* Result<PathBuf>
PathOk(p) == [ok |-> TRUE, path |-> p, err |-> "-"]
PathErr(e) == [ok |-> FALSE, path |-> Path(FALSE, <<>>, FALSE), err |-> e]

\* guest_init_path has not been called.
GipIdle ==
    /\ gipTmp = Path(FALSE, <<>>, FALSE)
    /\ gipHost = Path(FALSE, <<>>, FALSE)
    /\ gipRes = PathErr("not_called")

\* No Qemu is being built.
QnIdle ==
    /\ qnTarget = [name |-> "", image |-> {}, kernel |-> {}, uefi |-> FALSE,
                   command |-> "", bios |-> {}, kernel_args |-> {}]
    /\ qnMounts = <<>>
    /\ qnState = "new"
    /\ qnArgs = <<>>
    /\ qnArgs2 = <<>>
    /\ qnGuest = <<>>

\* let mut period = Duration::from_millis(200)
PollStart == 200
\* Duration::from_secs(5), in ms
PollCap == 5000

\* The reply of a guest-exec-status before the command has exited.
NoStatus ==
    [exitcode |-> None, out_data |-> <<>>, out_truncated |-> FALSE,
     err_data |-> <<>>, err_truncated |-> FALSE]

\* run_in_vm has not been called.
RvIdle ==
    /\ rvPc = "exec"
    /\ rvPeriod = PollStart
    /\ rvSleeps = <<>>
    /\ rvLate = FALSE
    /\ rvWarned = FALSE
    /\ rvStatus = NoStatus
    /\ rvOut = <<>>
    /\ rvRes = [ok |-> TRUE, code |-> 0, ctx |-> "-"]

\* No streamer has been started.
StIdle ==
    /\ stKind = "boot"
    /\ stIn = <<>>
    /\ stPc = "stopped"
    /\ stRead = <<>>
    /\ stOut = <<>>
    /\ stBroken = FALSE
    /\ stErrs = 0

\* No QgaWrapper has been made.
QgIdle ==
    /\ qgPc = "idle"
    /\ qgCur = [id |-> 0, kind |-> "-"]
    /\ qgSent = 0
    /\ qgReqs = <<>>
    /\ qgResps = <<>>
    /\ qgGot = <<>>

\* connect_to_uds has not been called.
UdIdle ==
    /\ udPath = "qmp"
    /\ udLive = {}
    /\ udPc = "done"
    /\ udTries = 0
    /\ udRes = "-"

OtherIdle ==
    UiIdle /\ GxIdle /\ GipIdle /\ QnIdle /\ RvIdle /\ StIdle /\ QgIdle
    /\ UdIdle

RunIdle ==
    /\ pc = "start"
    /\ chan = <<>>
    /\ child = "none"
    /\ socks = {}
    /\ bootStreamer = "none"
    /\ cmdStream = "none"
    /\ cmdStreamer = "none"
    /\ mountIdx = 0
    /\ attempt = 0
    /\ site = "none"
    /\ rc = Ok(0)
    /\ status = None

Init ==
    /\ RunIdle
    /\ nMounts \in 0 .. MaxMounts
    /\ VmtestIdle
    /\ OtherIdle

Next ==
    \/ QemuCreateSock
    \/ QemuExit
    \/ BootStreamerLine
    \/ BootStreamerEof
    \/ CommandStreamerLine
    \/ CommandStreamerEof
    \/ RunBootStart
    \/ RunSpawnOk
    \/ RunSpawnErr
    \/ WaitForQemuOk
    \/ WaitForQemuTimeout
    \/ ConnectQmp
    \/ QmpHandshakeOk
    \/ QmpHandshakeErr
    \/ BootEndWithStderr
    \/ QgaNewOk
    \/ QgaNewErr
    \/ RunSetupStart
    \/ RunInVmExecOk
    \/ RunInVmExecErr
    \/ RunInVmPollExited
    \/ RunInVmPollErr
    \/ RunInVmFlushLine
    \/ SetupFail
    \/ MkdirDone
    \/ MountRetry
    \/ MountNext
    \/ RunSetupEndOk
    \/ RunCommandStart
    \/ RunCommandConnect
    \/ RunCommandEnd
    \/ RunSyncDone
    \/ QmpQuitOk
    \/ QmpQuitErr
    \/ ChildWait
    \/ ChildCleanup
    \/ DropQemu

Spec == Init /\ [][Next]_vars


(***************************************************************************)
(* Properties of the run of one target (under Spec).                       *)
(***************************************************************************)
IsStage(ev) == ev.k \in StartKinds \cup EndKinds
IsEndErr(ev) == ev.k \in EndKinds /\ ev.r = "Err"
StageEvents == SelectSeq(chan, IsStage)
Sent(k) == {i \in 1 .. Len(chan) : chan[i].k = k}
NoEndErrSent == \A i \in 1 .. Len(chan) : ~IsEndErr(chan[i])
\* run has returned and everything it owns has been dropped
RunReturned == pc = "done"

C2_EndErrIsLastStageEvent ==
    \A i, j \in 1 .. Len(chan) :
        (i < j /\ IsEndErr(chan[i])) => ~IsStage(chan[j])

StageNames == {"Boot", "Setup", "Command"}
Starts(s) == Cardinality(Sent(s \o "Start"))
Ends(s) == Cardinality(Sent(s \o "End"))

\* C3: each stage that is started is ended exactly once: never more *End than
\* *Start events of a stage, no stage started twice, and once run has
\* returned as many *End as *Start events.
C3_StartedStagesEndOnce ==
    \A s \in StageNames :
        /\ Starts(s) <= 1
        /\ Ends(s) <= Starts(s)
        /\ RunReturned => Ends(s) = Starts(s)

C38_ZeroOnlyForExitCodeZero ==
    [][/\ chan' = Append(chan, CommandEndOk(0)) => status = Some(0)
       /\ (site \in {"mkdir", "mount"} /\ Returned(site) /\ rc = Ok(0))
             => status = Some(0)]_vars

\* Event i of the channel was sent after an event of variant k.
Before(i, k) == \E j \in Sent(k) : j < i

\* C6 as claimed: every Boot line is sent after BootStart and before BootEnd,
\* every Command line after CommandStart and before CommandEnd.
C6_LinesWithinTheirStage ==
    /\ \A i \in Sent("Boot") : Before(i, "BootStart") /\ ~Before(i, "BootEnd")
    /\ \A i \in Sent("Command") :
          Before(i, "CommandStart") /\ ~Before(i, "CommandEnd")

\* C6 as amended: every Boot line is sent after BootStart and every Command
\* line after CommandStart; the Command lines the orchestrator sends itself
\* (the output the agent reports) are sent before CommandEnd.  The lines of
\* the streamer threads are not held to the End of their stage.
C6_LinesAfterStageStart ==
    /\ \A i \in Sent("Boot") : Before(i, "BootStart")
    /\ \A i \in Sent("Command") :
          /\ Before(i, "CommandStart")
          /\ chan[i].by = "orch" => ~Before(i, "CommandEnd")

\* A run without failure in which a Boot line of the stdout streamer was sent
\* after BootEnd and a Command line of the command-output streamer after
\* CommandEnd.
C6_Witness ==
    /\ NoEndErrSent
    /\ \E i \in Sent("Boot") : Before(i, "BootEnd")
    /\ \E i \in Sent("Command") :
          chan[i].by = "cmd_streamer" /\ Before(i, "CommandEnd")

(***************************************************************************)
(* Config validation and target dispatch (src/src/vmtest.rs).              *)
(*                                                                         *)
(* An Option<T> is the set of its values: {} is None, {x} is Some(x).      *)
(* Config.target is a sequence; the code's 0-based index idx is element    *)
(* idx + 1 of it.                                                          *)
(***************************************************************************)
Target(name, img, kernel, uefi, command, bios, kargs) ==
    [name |-> name, image |-> img, kernel |-> kernel, uefi |-> uefi,
     command |-> command, bios |-> bios, kernel_args |-> kargs]

\* The error of a bail! whose message holds the target's name.
ByName(rule, t) == [rule |-> rule, target |-> t.name, idx |-> -1]
\* The error of the bail! whose message holds the target's index.
ByIndex(rule, idx) == [rule |-> rule, target |-> "-", idx |-> idx]

\* ValidateTarget without the check of uefi against image.
ValidateTargetNoUefiCheck(idx, t) ==
    IF t.name = "" THEN ByIndex("name_empty", idx)
    ELSE IF t.image = {} /\ t.kernel = {} THEN ByName("neither", t)
    ELSE IF t.image # {} /\ t.kernel # {} THEN ByName("both", t)
    ELSE IF "" \in t.image THEN ByName("empty_image", t)
    ELSE IF "" \in t.kernel THEN ByName("empty_kernel", t)
    ELSE IF t.command = "" THEN ByName("empty_command", t)
    ELSE NoError

\* The body of validate_config's loop for the target t at index idx: the
\* first bail! it reaches, or NoError.
ValidateTarget(idx, t) ==
    IF t.name = "" THEN ByIndex("name_empty", idx)
    ELSE IF t.image = {} /\ t.kernel = {} THEN ByName("neither", t)
    ELSE IF t.image # {} /\ t.kernel # {} THEN ByName("both", t)
    ELSE IF t.uefi /\ t.image = {} THEN ByName("uefi_without_image", t)
    ELSE IF "" \in t.image THEN ByName("empty_image", t)
    ELSE IF "" \in t.kernel THEN ByName("empty_kernel", t)
    ELSE IF t.command = "" THEN ByName("empty_command", t)
    ELSE NoError

\* validate_config from index idx on: the loop stops at the first target
\* that bails.
RECURSIVE ValidateFrom(_, _)
ValidateFrom(cfg, idx) ==
    IF idx >= Len(cfg) THEN NoError
    ELSE IF ValidateTarget(idx, cfg[idx + 1]) # NoError
         THEN ValidateTarget(idx, cfg[idx + 1])
    ELSE ValidateFrom(cfg, idx + 1)

ValidateConfig(cfg) == ValidateFrom(cfg, 0)

\* Vmtest::new that drops the result of validate_config.
VmtestOfUnchecked(err) == "ok"

\* Vmtest::new: validate_config(&config)?, then the Vmtest value.
VmtestOf(err) == IF err = NoError THEN "ok" ELSE "err"

VmtestNew ==
    /\ vmtest = "none"
    /\ newErr' = ValidateConfig(config)
    /\ vmtest' = VmtestOf(ValidateConfig(config))
    /\ UNCHANGED <<config, runs>>
    /\ UNCHANGED <<runVars, otherVars>>

\* What run_one(idx) does: Err for an index out of range, else
\* Qemu::new(..).run().  This run_one has no output channel: it sends no
\* Output event.
RunOneResult(cfg, idx) ==
    IF idx >= Len(cfg)
    THEN [idx |-> idx, ret |-> "Err", qemu |-> FALSE, events |-> <<>>]
    ELSE [idx |-> idx, ret |-> "QemuRun", qemu |-> TRUE, events |-> <<>>]

\* Vmtest::run_one is a method: it needs the Vmtest that new returned.
RunOne ==
    /\ vmtest = "ok"
    /\ \E idx \in 0 .. Len(config) :
          runs' = runs \cup {RunOneResult(config, idx)}
    /\ UNCHANGED <<config, vmtest, newErr>>
    /\ UNCHANGED <<runVars, otherVars>>

(***************************************************************************)
(* The configs the validation is checked on, built target by target as the *)
(* config loader does.  The target at index idx is named NameOf(idx) or    *)
(* has the empty name; bios and kernel_args, which validate_config never   *)
(* reads, are set together or not at all, for all targets of a config      *)
(* alike.                                                                  *)
(***************************************************************************)
NameOf(idx) == <<"t0", "t1", "t2", "t3">>[idx + 1]
Paths(p) == {{}, {""}, {p}}
Extras == {<<{}, {}>>, <<{"OVMF.fd"}, {"ro"}>>}

TargetsAt(idx, x) ==
    {Target(n, i, k, u, c, x[1], x[2]) :
        n \in {"", NameOf(idx)}, i \in Paths("img"), k \in Paths("bzImage"),
        u \in BOOLEAN, c \in {"", "cmd"}}

ExtrasOf(cfg) ==
    IF cfg = <<>> THEN Extras ELSE {<<cfg[1].bios, cfg[1].kernel_args>>}

\* One more [[target]] table of the config file.
AddTarget ==
    /\ vmtest = "none"
    /\ Len(config) < MaxTargets
    /\ \E x \in ExtrasOf(config) : \E t \in TargetsAt(Len(config), x) :
          config' = Append(config, t)
    /\ UNCHANGED <<vmtest, newErr, runs>>
    /\ UNCHANGED <<runVars, otherVars>>

InitVmtest ==
    /\ RunIdle
    /\ nMounts = 0
    /\ VmtestIdle
    /\ OtherIdle

NextVmtest ==
    \/ AddTarget
    \/ VmtestNew
    \/ RunOne

SpecVmtest == InitVmtest /\ [][NextVmtest]_vars


(***************************************************************************)
(* Properties of validation and dispatch (under SpecVmtest).               *)
(***************************************************************************)
\* The defects of a target that C7 lists.
Defects(t) ==
    {d \in {"both", "neither", "uefi_without_image", "empty_image",
            "empty_kernel", "empty_command", "empty_name"} :
        \/ d = "both" /\ t.image # {} /\ t.kernel # {}
        \/ d = "neither" /\ t.image = {} /\ t.kernel = {}
        \/ d = "uefi_without_image" /\ t.uefi /\ t.image = {}
        \/ d = "empty_image" /\ t.image = {""}
        \/ d = "empty_kernel" /\ t.kernel = {""}
        \/ d = "empty_command" /\ t.command = ""
        \/ d = "empty_name" /\ t.name = ""}

Defective == {i \in 1 .. Len(config) : Defects(config[i]) # {}}
Validated == vmtest # "none"

\* C7: validate_config rejects a config with a target that sets both image
\* and kernel, or neither, or uefi without image, or has an empty image path,
\* kernel path, command or name: once Vmtest::new has run, its result is Ok
\* only if no target of the config has any of these defects.
C7_DefectiveTargetRejected ==
    Validated =>
        /\ Defective # {} => vmtest = "err" /\ newErr # NoError
        /\ vmtest = "ok" => \A i \in 1 .. Len(config) : Defects(config[i]) = {}

\* A config rejected for its second target, a kernel target that sets uefi
\* and has no other defect.
C7_Witness ==
    /\ vmtest = "err"
    /\ Len(config) = 2
    /\ Defects(config[1]) = {}
    /\ Defects(config[2]) = {"uefi_without_image"}

OptionMisuse(t) ==
    \/ t.bios # {} /\ ~t.uefi
    \/ t.kernel_args # {} /\ t.kernel = {}

\* C8: validation rejects a target whose bios is set while uefi is false, and
\* a target whose kernel_args is set while kernel is not set.
C8_OptionMisuseRejected ==
    (Validated /\ \E i \in 1 .. Len(config) : OptionMisuse(config[i]))
        => vmtest = "err"

FirstDefective == CHOOSE i \in Defective : \A j \in Defective : i <= j

\* C9: if a target of the config violates a validation rule, Vmtest::new
\* returns an error that names the first such target in list order (by its
\* name, or by its index when its name is empty), no Vmtest is constructed
\* and run_one is never called: no target is run.
C9_InvalidConfigRunsNothing ==
    Defective # {} =>
        /\ vmtest # "ok"
        /\ runs = {}
        /\ Validated =>
              /\ vmtest = "err"
              /\ IF config[FirstDefective].name = ""
                 THEN newErr.idx = FirstDefective - 1
                 ELSE newErr.target = config[FirstDefective].name

\* Vmtest::new has failed on a config whose first target is valid and whose
\* second is not: the error names the second, the first is never run.
C9_Witness ==
    /\ vmtest = "err"
    /\ Len(config) = 2
    /\ Defects(config[1]) = {}
    /\ Defects(config[2]) # {}
    /\ newErr.target = NameOf(1)

\* C10: run_one of an index out of range sends BootEnd(Err) on the output
\* channel, and nothing else, and spawns no hypervisor.
C10_OutOfRangeSendsBootEndErr ==
    \A r \in runs :
        r.idx >= Len(config) =>
            /\ r.events = <<EndErr("BootEnd", "-")>>
            /\ ~r.qemu

(***************************************************************************)
(* Properties of the setup and command stages (under Spec).                *)
(***************************************************************************)
\* The orchestrator takes its step out of a run_in_vm(mount) that returned.
MountReturns == Returned("mount") /\ pc' # pc

\* C11: the mount is attempted at most MountAttempts = 5 times.  When the
\* attempt after k exits with 32 (k <= 4) exits with 0, mount_in_guest
\* succeeds: run goes on to the next mount or sends SetupEnd(Ok).  When the
\* fifth attempt exits with 32 too, run sends SetupEnd(Err) and returns.
C11_MountRetriedFiveTimes ==
    /\ [](attempt < MountAttempts)
    /\ [][MountReturns =>
            /\ (rc = Ok(0)) =>
                  \/ pc' = "exec" /\ site' = "mkdir" /\ chan' = chan
                  \/ pc' = "command_start"
                        /\ chan' = Append(chan, EndOk("SetupEnd"))
            /\ (rc = Ok(MountRetryCode) /\ attempt < MountAttempts - 1) =>
                  /\ pc' = "exec" /\ site' = "mount" /\ chan' = chan
                  /\ attempt' = attempt + 1
            /\ (rc = Ok(MountRetryCode) /\ attempt = MountAttempts - 1) =>
                  /\ pc' = "cleanup"
                  /\ chan' = Append(chan, EndErr("SetupEnd", "-"))]_vars

\* The fifth attempt of a mount, after four that exited with 32, has exited
\* with 32.
C11_Witness ==
    /\ site = "mount"
    /\ pc = "flush"
    /\ attempt = MountAttempts - 1
    /\ rc = Ok(MountRetryCode)

\* The orchestrator takes its step out of the run_in_vm of run_command.
CommandReturns == Returned("command") /\ pc' # pc
\* This step sends CommandEnd(Err).
SendsCommandEndErr == chan' = Append(chan, EndErr("CommandEnd", "-"))

\* C12: when the agent reports that the user command exited with a non-zero
\* code, run sends CommandEnd(Ok(code)) with that code; and CommandEnd(Err) is
\* sent only when the connection to the command-output socket failed or
\* run_in_vm returned the error of a guest-agent request.
C12_NonZeroExitIsOk ==
    [][/\ (CommandReturns /\ pc = "flush" /\ status.some /\ status.v # 0) =>
              chan' = Append(chan, CommandEndOk(status.v))
       /\ SendsCommandEndErr =>
              \/ pc = "connect_cmd" /\ "cmdout" \notin Live
              \/ Returned("command") /\ pc = "ret" /\ ~rc.ok]_vars

\* CommandEnd(Ok(1)) was sent.
C12_Witness ==
    \E i \in Sent("CommandEnd") : chan[i] = CommandEndOk(1)

\* The connect to the QMP socket or the QMP handshake has failed.
QmpFailed == pc \in {"stderr_connect", "stderr_handshake"}

\* C13: when the connect to the QMP socket or the QMP handshake has failed,
\* the next step of run sends BootEnd(Err) with the child's stderr as context
\* and returns; no stage event follows that BootEnd(Err) on the channel.
C13_QmpFailureCarriesStderr ==
    /\ [][(QmpFailed /\ pc' # pc) =>
              /\ chan' = Append(chan, EndErr("BootEnd", "stderr"))
              /\ pc' = "cleanup"]_vars
    /\ [](\A i \in 1 .. Len(chan) :
              (chan[i].k = "BootEnd" /\ chan[i].ctx = "stderr") =>
                  \A j \in i + 1 .. Len(chan) : ~IsStage(chan[j]))

\* A run that returned after the QMP connect or handshake failed, with
\* BootStart and the BootEnd(Err) that carries the stderr as its only stage
\* events.
C13_Witness ==
    /\ RunReturned
    /\ StageEvents = <<Start("BootStart"), EndErr("BootEnd", "stderr")>>

\* CommandEnd(Err) has been sent.
CommandEndErrSent == \E i \in Sent("CommandEnd") : chan[i].r = "Err"

C24_CommandEndIsLastOrchEvent ==
    /\ [](\A i \in Sent("CommandEnd") :
              \A j \in i + 1 .. Len(chan) : chan[j].by # "orch")
    /\ [][Sent("CommandEnd") # {} =>
              \/ chan' = chan
              \/ chan' = Append(chan, Line("Boot", "boot_streamer"))
              \/ chan' = Append(chan, Line("Command", "cmd_streamer"))]_vars

\* CommandEnd(Ok) has been sent and the guest sync after it has failed.
C24_Witness ==
    /\ \E i \in Sent("CommandEnd") : chan[i].r = "Ok"
    /\ site = "sync"
    /\ pc = "ret"
    /\ ~rc.ok

\* SetupEnd(Err) has been sent.
SetupEndErrSent == \E i \in Sent("SetupEnd") : chan[i].r = "Err"
\* This step sends SetupEnd(Err) and run returns.
SetupFails ==
    chan' = Append(chan, EndErr("SetupEnd", "-")) /\ pc' = "cleanup"

\* C26: when mkdir -p exits with a non-zero code, and when mount exits with
\* a non-zero code other than 32, the next step of run sends SetupEnd(Err)
\* and returns, with no mount and no retry; once SetupEnd(Err) is sent, run
\* is returning and CommandStart is never sent.
C26_BadExitCodeFailsSetup ==
    /\ [][(/\ pc = "flush" /\ pc' # pc /\ status.some /\ status.v # 0
           /\ \/ site = "mkdir"
              \/ site = "mount" /\ status.v # MountRetryCode)
              => SetupFails]_vars
    /\ [](SetupEndErrSent =>
              /\ pc \in {"cleanup", "drop", "done"}
              /\ Sent("CommandStart") = {})

\* The first attempt of a mount has exited with 1.
C26_Witness ==
    /\ site = "mount"
    /\ pc = "flush"
    /\ status = Some(1)
    /\ attempt = 0

\* C27: the mounts are done in order, the shared directory first; a mount
\* command is issued only after the mkdir of its guest path exited with
\* code 0; SetupEnd(Ok) is sent only after the mount of the last entry exited
\* with code 0; and a failed mount_in_guest ends the stage and the run.
C27_MountsInOrderAfterMkdir ==
    /\ [][/\ mountIdx' \in {mountIdx, mountIdx + 1, 0}
          /\ (site = "mkdir" /\ site' = "mount") => status = Some(0)
          /\ chan' = Append(chan, EndOk("SetupEnd")) =>
                 /\ mountIdx = nMounts
                 /\ site = "mount"
                 /\ status = Some(0)
          /\ chan' = Append(chan, EndErr("SetupEnd", "-")) =>
                 pc' = "cleanup"]_vars
    /\ [](pc = "exec" /\ site = "mkdir" /\ Sent("SetupEnd") = {} =>
              mountIdx \in 0 .. nMounts)

\* The steps of the boot stage that the orchestrator thread takes without
\* the hypervisor's help: those that end by success or by their deadline
\* (wait_for_qemu, connect_to_uds, QgaWrapper::new), and the reads that end
\* once the child has exited and its end of the stream is closed
\* (qmp.handshake, extract_child_stderr).
BootWaits ==
    \/ RunBootStart
    \/ RunSpawnOk
    \/ RunSpawnErr
    \/ WaitForQemuOk
    \/ WaitForQemuTimeout
    \/ ConnectQmp
    \/ QmpHandshakeErr /\ child # "running"
    \/ BootEndWithStderr
    \/ QgaNewOk
    \/ QgaNewErr

\* The run with its orchestrator thread always scheduled; the hypervisor is
\* free to create its sockets, to answer and to exit, or not to.
SpecFair == Spec /\ WF_vars(BootWaits)

\* C25: once BootStart is sent and the hypervisor is spawned, a BootEnd
\* event is eventually sent.
C25_BootEndEventuallySent ==
    (pc = "wait_for_qemu") ~> (Sent("BootEnd") # {})

(***************************************************************************)
(* Ui::run and target_ui (src/src/ui.rs).  For each target Ui::run starts  *)
(* target_ui on a thread of its own, runs the target, which sends its      *)
(* Output events and hangs up, and joins the thread.                       *)
(***************************************************************************)
\* const EX_UNAVAILABLE: i32 = 69
EX_UNAVAILABLE == 69

\* Option::unwrap_or
UnwrapOr(e, d) == IF e.some THEN e.v ELSE d

\* retval as i32, of an i64: the low 32 bits, which is the value itself for
\* every value within the range of i32 (all the integers of this model).
AsI32(v) == v

\* The exit codes of the user commands of the targets that are run.
UiCodes == {0, 1, 12}

\* The stage events Qemu::run sends by the time it returns.  The boot stage
\* fails, or it succeeds, in both cases possibly after the BootEnd(Err) of
\* wait_for_qemu, after which run goes on; then the setup stage fails, or it
\* succeeds and the command stage ends with an error or with an exit code.
BootFailures ==
    {<<Start("BootStart"), EndErr("BootEnd", c)>> : c \in {"-", "stderr"}}
    \cup {<<Start("BootStart"), EndErr("BootEnd", "-"), EndErr("BootEnd", c)>> :
            c \in {"-", "stderr"}}
BootSuccesses ==
    {<<Start("BootStart"), EndOk("BootEnd")>>,
     <<Start("BootStart"), EndErr("BootEnd", "-"), EndOk("BootEnd")>>}
AfterBoot(codes) ==
    {<<Start("SetupStart"), EndErr("SetupEnd", "-")>>}
    \cup {<<Start("SetupStart"), EndOk("SetupEnd"), Start("CommandStart"), e>> :
            e \in {EndErr("CommandEnd", "-")}
                  \cup {CommandEndOk(c) : c \in codes}}
RunStreams(codes) ==
    BootFailures \cup {b \o a : b \in BootSuccesses, a \in AfterBoot(codes)}

\* Under Spec: the stage events of a run that returned are a run stream.
RunSendsARunStream == RunReturned => StageEvents \in RunStreams({0, 1})

\* The events of s, with a line of the boot log after the first if boot.
WithBootLine(s, boot) ==
    IF boot THEN <<Head(s), Line("Boot", "boot_streamer")>> \o Tail(s) ELSE s

\* target_ui with the arm of CommandEnd(Ok(retval)) setting rc to 1 for every
\* non-zero retval.
TargetUiRcOne(cur, msg) ==
    IF msg.k \in EndKinds /\ msg.r = "Err" THEN None
    ELSE IF msg.k = "CommandEnd" THEN Some(IF msg.code = 0 THEN 0 ELSE 1)
    ELSE cur

\* target_ui: rc after the match on msg.
TargetUiRc(cur, msg) ==
    IF msg.k \in EndKinds /\ msg.r = "Err" THEN None
    ELSE IF msg.k = "CommandEnd" THEN Some(AsI32(msg.code))
    ELSE cur

\* Ui::run: the loop body up to the call of run_one: the channel is created
\* and target_ui is spawned with rc = Some(0); s is what the run will send.
UiRunOne ==
    /\ uiPc = "loop"
    /\ uiIdx < uiLen
    /\ \E s \in RunStreams(UiCodes), boot \in BOOLEAN :
          uiToSend' = WithBootLine(s, boot)
    /\ uiRecv' = <<>>
    /\ uiRan' = Append(uiRan, <<>>)
    /\ uiThreads' = Append(uiThreads, [run |-> "running", ui |-> "running",
                                       child |-> "none"])
    /\ uiRc' = Some(0)
    /\ uiPc' = "run"
    /\ UNCHANGED <<uiLen, uiIdx, uiFailed, uiRet>>
    /\ UNCHANGED notUiVars

\* run_one, Qemu::run: the next event is sent on the channel; after
\* BootStart the hypervisor is spawned, which can fail only in a run that
\* sends nothing but BootEnd(Err) after it.
UiSend ==
    /\ uiPc = "run"
    /\ uiToSend # <<>>
    /\ uiRecv' = Append(uiRecv, Head(uiToSend))
    /\ uiRan' = [uiRan EXCEPT ![Len(uiRan)] = Append(@, Head(uiToSend))]
    /\ uiToSend' = Tail(uiToSend)
    /\ \E spawned \in {TRUE} \cup {Len(uiToSend) # 2} :
          uiThreads' =
              [uiThreads EXCEPT ![Len(uiThreads)].child =
                  IF Head(uiToSend).k = "BootStart" /\ spawned
                  THEN "alive" ELSE @]
    /\ UNCHANGED <<uiPc, uiLen, uiIdx, uiRc, uiFailed, uiRet>>
    /\ UNCHANGED notUiVars

\* UiRunReturn that leaves the child alive.
UiRunReturnChildAlive ==
    /\ uiPc = "run"
    /\ uiToSend = <<>>
    /\ uiThreads' = [uiThreads EXCEPT ![Len(uiThreads)].run = "returned"]
    /\ uiPc' = "recv"
    /\ UNCHANGED <<uiLen, uiIdx, uiRecv, uiRc, uiFailed, uiRet, uiRan,
                   uiToSend>>
    /\ UNCHANGED notUiVars

\* run_one returns: Qemu::run has returned, its child is reaped and its
\* sender is dropped.
UiRunReturn ==
    /\ uiPc = "run"
    /\ uiToSend = <<>>
    /\ uiThreads' = [uiThreads EXCEPT
                        ![Len(uiThreads)].run = "returned",
                        ![Len(uiThreads)].child =
                            IF @ = "alive" THEN "reaped" ELSE @]
    /\ uiPc' = "recv"
    /\ UNCHANGED <<uiLen, uiIdx, uiRecv, uiRc, uiFailed, uiRet, uiRan,
                   uiToSend>>
    /\ UNCHANGED notUiVars

\* target_ui: updates.recv() is Ok(msg).
UiRecvMsg ==
    /\ uiPc \in {"run", "recv"}
    /\ uiRecv # <<>>
    /\ uiRc' = TargetUiRc(uiRc, Head(uiRecv))
    /\ uiRecv' = Tail(uiRecv)
    /\ UNCHANGED <<uiPc, uiLen, uiIdx, uiFailed, uiRet, uiRan, uiToSend,
                   uiThreads>>
    /\ UNCHANGED notUiVars

\* UiJoin that adds the joined rc to failed.
UiJoinAddsRc ==
    /\ uiPc = "recv"
    /\ uiRecv = <<>>
    /\ LET joined == UnwrapOr(uiRc, EX_UNAVAILABLE) IN
        IF uiLen = 1
        THEN /\ uiRet' = Some(joined)
             /\ uiPc' = "done"
             /\ UNCHANGED <<uiIdx, uiFailed>>
        ELSE /\ uiFailed' = uiFailed + joined
             /\ uiIdx' = uiIdx + 1
             /\ uiPc' = "loop"
             /\ UNCHANGED uiRet
    /\ uiThreads' = [uiThreads EXCEPT ![Len(uiThreads)].ui = "finished"]
    /\ UNCHANGED <<uiLen, uiRecv, uiRc, uiRan, uiToSend>>
    /\ UNCHANGED notUiVars

\* target_ui: updates.recv() is Err (the run hung up), target_ui returns rc;
\* Ui::run joins it, returns rc if single_cmd and counts a failure otherwise.
UiJoin ==
    /\ uiPc = "recv"
    /\ uiRecv = <<>>
    /\ LET joined == UnwrapOr(uiRc, EX_UNAVAILABLE) IN
        IF uiLen = 1
        THEN /\ uiRet' = Some(joined)
             /\ uiPc' = "done"
             /\ UNCHANGED <<uiIdx, uiFailed>>
        ELSE /\ uiFailed' = uiFailed + (IF joined = 0 THEN 0 ELSE 1)
             /\ uiIdx' = uiIdx + 1
             /\ uiPc' = "loop"
             /\ UNCHANGED uiRet
    /\ uiThreads' = [uiThreads EXCEPT ![Len(uiThreads)].ui = "finished"]
    /\ UNCHANGED <<uiLen, uiRecv, uiRc, uiRan, uiToSend>>
    /\ UNCHANGED notUiVars

\* Ui::run: the loop is over, failed is returned.
UiReturnFailed ==
    /\ uiPc = "loop"
    /\ uiIdx >= uiLen
    /\ uiRet' = Some(uiFailed)
    /\ uiPc' = "done"
    /\ UNCHANGED <<uiLen, uiIdx, uiRecv, uiRc, uiFailed, uiRan, uiToSend,
                   uiThreads>>
    /\ UNCHANGED notUiVars

InitUi ==
    /\ RunIdle
    /\ nMounts = 0
    /\ VmtestIdle
    /\ uiPc = "loop"
    /\ uiLen \in 0 .. MaxTargets
    /\ uiIdx = 0
    /\ uiRecv = <<>>
    /\ uiRc = Some(0)
    /\ uiFailed = 0
    /\ uiRet = None
    /\ uiRan = <<>>
    /\ uiToSend = <<>>
    /\ uiThreads = <<>>
    /\ GxIdle
    /\ GipIdle
    /\ QnIdle
    /\ RvIdle
    /\ StIdle
    /\ QgIdle
    /\ UdIdle

NextUi ==
    \/ UiRunOne
    \/ UiSend
    \/ UiRunReturn
    \/ UiRecvMsg
    \/ UiJoin
    \/ UiReturnFailed

SpecUi == InitUi /\ [][NextUi]_vars

(***************************************************************************)
(* Properties of Ui::run (under SpecUi).                                   *)
(***************************************************************************)
\* The exit codes the stream s reports, and whether it reports exit code 0.
ExitCodesIn(s) ==
    {s[i].code : i \in {j \in 1 .. Len(s) : s[j].k = "CommandEnd" /\ s[j].r = "Ok"}}
ZeroExit(s) == ExitCodesIn(s) = {0}
UiReturned == uiRet.some

\* C14: when more than one target is run, Ui::run has run every target by
\* the time it returns, and returns the number of targets whose run did not
\* report the exit code 0.
C14_ReturnsNumberOfFailures ==
    (UiReturned /\ uiLen > 1) =>
        /\ Len(uiRan) = uiLen
        /\ uiRet.v = Cardinality({i \in 1 .. uiLen : ~ZeroExit(uiRan[i])})

\* Ui::run of two targets, the first with exit code 0 and the second with a
\* non-zero exit code, has returned.
C14_Witness ==
    /\ UiReturned
    /\ uiLen = 2
    /\ ZeroExit(uiRan[1])
    /\ ExitCodesIn(uiRan[2]) = {12}

\* C15: when exactly one target is run, Ui::run returns the exit code of the
\* target's command, and EX_UNAVAILABLE when the run reported no exit code.
C15_SingleReturnsExitCode ==
    (UiReturned /\ uiLen = 1) =>
        /\ Len(uiRan) = 1
        /\ \A c \in ExitCodesIn(uiRan[1]) : uiRet.v = c
        /\ ExitCodesIn(uiRan[1]) = {} => uiRet.v = EX_UNAVAILABLE

\* Ui::run of one target whose command exited with 12 has returned.
C15_Witness ==
    /\ UiReturned
    /\ uiLen = 1
    /\ ExitCodesIn(uiRan[1]) = {12}

UiReceivedAll == uiPc = "recv" /\ uiRecv = <<>>
UiLastStream == uiRan[Len(uiRan)]
UiGotEndErr ==
    \E i \in 1 .. Len(UiLastStream) :
        UiLastStream[i].k \in EndKinds /\ UiLastStream[i].r = "Err"

\* C35: target_ui returns None whenever it received a BootEnd, SetupEnd or
\* CommandEnd with Err, whatever it received after it, and Some(code) only
\* if it received CommandEnd(Ok(code)) and no such Err.
C35_FailureIsFinal ==
    UiReceivedAll =>
        /\ UiGotEndErr => uiRc = None
        /\ uiRc # None =>
              \E i \in 1 .. Len(UiLastStream) :
                  /\ UiLastStream[i].k = "CommandEnd"
                  /\ UiLastStream[i].r = "Ok"
                  /\ uiRc = Some(AsI32(UiLastStream[i].code))

(***************************************************************************)
(* The guest-exec requests of a run: what run_in_vm asks the agent for,    *)
(* for each of its callers, in the order run calls them.                   *)
(***************************************************************************)
\* run_in_vm: the qga::guest_exec it sends for cmd.
GuestExecArgs(cmd, propagate_env, version) ==
    [path |-> cmd,
     capture_output |-> IF version.major >= 8 /\ version.minor >= 1
                        THEN "merged" ELSE "flag",
     env |-> IF propagate_env THEN "host_env" ELSE "none"]

\* run_command that passes self.image for propagate_env.
RunCommandArgsImageEnv(image, version) ==
    GuestExecArgs("bash", image, version)

\* run_command: run_in_vm(qga, &output_fn, "bash", &args, !self.image, ..)
RunCommandArgs(image, version) == GuestExecArgs("bash", ~image, version)
\* mount_in_guest: run_in_vm(qga, &output_fn, "mkdir", .., false, None)
MkdirArgs(version) == GuestExecArgs("mkdir", FALSE, version)
\* mount_in_guest: run_in_vm(qga, &output_fn, "mount", .., false, None)
MountArgs(version) == GuestExecArgs("mount", FALSE, version)
\* sync: run_in_vm(qga, &|_| {}, "sync", &[], false, None)
SyncArgs(version) == GuestExecArgs("sync", FALSE, version)

GxSend(req, next) ==
    /\ gxReqs' = Append(gxReqs, req)
    /\ gxPc' = next
    /\ UNCHANGED <<gxImage, gxVersion>>
    /\ UNCHANGED notGxVars

GxMkdir == gxPc = "mkdir" /\ GxSend(MkdirArgs(gxVersion), "mount")
GxMount == gxPc = "mount" /\ GxSend(MountArgs(gxVersion), "command")
GxCommand ==
    gxPc = "command" /\ GxSend(RunCommandArgs(gxImage, gxVersion), "sync")
GxSync == gxPc = "sync" /\ GxSend(SyncArgs(gxVersion), "done")

InitExec ==
    /\ RunIdle
    /\ nMounts = 0
    /\ VmtestIdle
    /\ UiIdle
    /\ gxImage \in BOOLEAN
    /\ gxVersion \in [major : 0 .. MaxMajor, minor : 0 .. MaxMinor]
    /\ gxPc = "mkdir"
    /\ gxReqs = <<>>
    /\ GipIdle
    /\ QnIdle
    /\ RvIdle
    /\ StIdle
    /\ QgIdle
    /\ UdIdle

NextExec ==
    \/ GxMkdir
    \/ GxMount
    \/ GxCommand
    \/ GxSync

SpecExec == InitExec /\ [][NextExec]_vars

(***************************************************************************)
(* Properties of the guest-exec requests (under SpecExec).                 *)
(***************************************************************************)
\* C16: the host environment is passed with a guest-exec request only for
\* the user command (bash) of a kernel target; never for an image target and
\* never for the mkdir, mount and sync of the harness.
C16_EnvOnlyForKernelCommand ==
    \A i \in 1 .. Len(gxReqs) :
        gxReqs[i].env = "host_env" <=> (gxReqs[i].path = "bash" /\ ~gxImage)

\* All four executions of a kernel target's run have been requested, the
\* user command's with the host environment.
C16_Witness ==
    /\ gxPc = "done"
    /\ ~gxImage
    /\ gxReqs[3].path = "bash"
    /\ gxReqs[3].env = "host_env"

\* C17: run_in_vm requests merged capture exactly when the agent's version
\* is at least 8.1: major > 8, or major = 8 and minor >= 1.
C17_MergedFromVersion81 ==
    \A i \in 1 .. Len(gxReqs) :
        gxReqs[i].capture_output = "merged" <=>
            \/ gxVersion.major > 8
            \/ gxVersion.major = 8 /\ gxVersion.minor >= 1

(***************************************************************************)
(* guest_init_path (src/src/qemu.rs), on paths as std::path sees them.     *)
(***************************************************************************)
\* Path::components: the root, if any, then the normal components.
Components(p) == (IF p.root THEN <<"/">> ELSE <<>>) \o p.names

\* Path::parent: the path without its last component; None for a path that
\* ends in the root or is empty.
Parent(p) ==
    IF p.names = <<>> THEN {}
    ELSE {Path(p.root, SubSeq(p.names, 1, Len(p.names) - 1), FALSE)}

\* Path::file_name: the last normal component.
FileName(p) == IF p.names = <<>> THEN {} ELSE {p.names[Len(p.names)]}

\* StripPrefixRoot that takes a path without a root as it is.
StripPrefixRootLenient(p) == {Path(FALSE, p.names, p.trailing)}

\* Path::strip_prefix("/"): Err (the empty set) unless p starts with the root.
StripPrefixRoot(p) ==
    IF p.root THEN {Path(FALSE, p.names, p.trailing)} ELSE {}

\* Path::ends_with: the components of q are the last components of p.
EndsWith(p, q) ==
    LET ps == Components(p)
        qs == Components(q)
    IN  /\ Len(qs) <= Len(ps)
        /\ SubSeq(ps, Len(ps) - Len(qs) + 1, Len(ps)) = qs

\* PathBuf::push of a relative single component.
Push(p, name) == Path(p.root, Append(p.names, name), FALSE)

\* guest_init_path that joins the file name to the parent of host_init_path.
GuestInitPathOnHostParent(guest_temp_dir, host_init_path) ==
    IF Parent(host_init_path) = {} THEN PathErr("no_parent")
    ELSE IF StripPrefixRoot(guest_temp_dir) = {} THEN PathErr("not_absolute")
    ELSE LET parent == CHOOSE q \in Parent(host_init_path) : TRUE
             rel == CHOOSE q \in StripPrefixRoot(guest_temp_dir) : TRUE
         IN  IF ~EndsWith(parent, rel) THEN PathErr("not_suffix")
             ELSE PathOk(Push(parent,
                              CHOOSE n \in FileName(host_init_path) : TRUE))

guest_init_path(guest_temp_dir, host_init_path) ==
    IF Parent(host_init_path) = {} THEN PathErr("no_parent")
    ELSE IF StripPrefixRoot(guest_temp_dir) = {} THEN PathErr("not_absolute")
    ELSE LET parent == CHOOSE q \in Parent(host_init_path) : TRUE
             rel == CHOOSE q \in StripPrefixRoot(guest_temp_dir) : TRUE
         IN  IF ~EndsWith(parent, rel) THEN PathErr("not_suffix")
             ELSE PathOk(Push(guest_temp_dir,
                              CHOOSE n \in FileName(host_init_path) : TRUE))

GipCall ==
    /\ gipRes = PathErr("not_called")
    /\ gipRes' = guest_init_path(gipTmp, gipHost)
    /\ UNCHANGED <<gipTmp, gipHost>>
    /\ UNCHANGED notGipVars

\* The paths the calls are checked on.
PathNames == {"foo", "tmp", "bar.sh"}
NamesUpTo(n) == UNION {[1 .. k -> PathNames] : k \in 0 .. n}
PathsUpTo(n) ==
    {Path(r, ns, t) : r \in BOOLEAN, ns \in NamesUpTo(n), t \in BOOLEAN}
    \ {Path(r, <<>>, TRUE) : r \in BOOLEAN}

InitGip ==
    /\ RunIdle
    /\ nMounts = 0
    /\ VmtestIdle
    /\ UiIdle
    /\ GxIdle
    /\ QnIdle
    /\ RvIdle
    /\ StIdle
    /\ QgIdle
    /\ UdIdle
    /\ gipTmp \in PathsUpTo(MaxPathLen - 1)
    /\ gipHost \in PathsUpTo(MaxPathLen)
    /\ gipRes = PathErr("not_called")

NextGip == GipCall

SpecGip == InitGip /\ [][NextGip]_vars

(***************************************************************************)
(* Properties of guest_init_path (under SpecGip).                          *)
(***************************************************************************)
GipReturned == gipRes # PathErr("not_called")
\* PathBuf equality compares components.
SamePath(p, q) == Components(p) = Components(q)
\* s is made of the last elements of t.
IsSuffix(s, t) ==
    /\ Len(s) <= Len(t)
    /\ \A i \in 1 .. Len(s) : s[i] = t[Len(t) - Len(s) + i]
\* tmp is absolute and, without its root, a suffix of the directory of host.
TmpIsSuffixOfParent ==
    /\ gipTmp.root
    /\ gipHost.names # <<>>
    /\ IsSuffix(gipTmp.names,
                SubSeq(Components(gipHost), 1, Len(Components(gipHost)) - 1))

\* C18: when tmp is absolute and tmp without its leading '/' is a
\* component-wise suffix of the parent of host_path, guest_init_path returns
\* tmp joined with the file name of host_path.
C18_GuestInitPathJoins ==
    (GipReturned /\ TmpIsSuffixOfParent) =>
        /\ gipRes.ok
        /\ SamePath(gipRes.path,
                    Path(TRUE, gipTmp.names
                                 \o <<gipHost.names[Len(gipHost.names)]>>, FALSE))

\* guest_init_path("/tmp/", "/foo/tmp/bar.sh") has returned "/tmp/bar.sh".
C18_Witness ==
    /\ gipTmp = Path(TRUE, <<"tmp">>, TRUE)
    /\ gipHost = Path(TRUE, <<"foo", "tmp", "bar.sh">>, FALSE)
    /\ gipRes = PathOk(Path(TRUE, <<"tmp", "bar.sh">>, FALSE))

Arg(opt, val) == [opt |-> opt, val |-> val]

\* hash(s): the same value for the same input.
Hash(str) == "#" \o str

\* const ROOTFS_9P_FS_MOUNT_TAG / SHARED_9P_FS_MOUNT_TAG / MOUNT_OPTS_9P_FS
ROOTFS_9P_FS_MOUNT_TAG == "/dev/root"
SHARED_9P_FS_MOUNT_TAG == "vmtest-shared"
SHARED_9P_FS_MOUNT_PATH == "/mnt/vmtest"
MOUNT_OPTS_9P_FS == "trans=virtio,cache=loose,msize=1048576"
OVMF_PATHS ==
    <<"/usr/share/edk2/ovmf/OVMF_CODE.fd", "/usr/share/OVMF/OVMF_CODE.fd",
      "/usr/share/edk2-ovmf/x64/OVMF_CODE.fd">>
Arches == {"x86_64", "aarch64"}

\* drive_args(file, index), index = 1
drive_args(file) ==
    <<Arg("-drive", <<"file=" \o file, "index=1", "media=disk", "if=none",
                      "id=disk" \o Hash(file)>>),
      Arg("-device", <<"virtio-blk-pci", "drive=disk" \o Hash(file),
                       "bootindex=1">>)>>

\* kvm_args(arch), kvm: host_supports_kvm(arch)
kvm_args(arch, kvm) ==
    IF kvm THEN <<Arg("-enable-kvm", <<>>), Arg("-cpu", <<"host">>)>>
    ELSE IF arch \in {"aarch64", "s390x"} THEN <<Arg("-cpu", <<"max">>)>>
    ELSE <<Arg("-cpu", <<"qemu64">>)>>

machine_args(arch) ==
    IF arch = "aarch64" THEN <<Arg("-machine", <<"virt", "gic-version=3">>)>>
    ELSE <<>>

\* gen_sock(prefix), id: the number drawn by rand::thread_rng().
gen_sock(prefix, id) == "/tmp/" \o prefix \o "-" \o id \o ".sock"

\* gen_init(rootfs), rootfs "/": the guest path of the init tempfile, whose
\* name holds the 5 random characters rnd.
gen_init(rnd) == "/tmp/vmtest-init" \o rnd \o ".sh"

\* What one call of Qemu::new draws at random: the numbers of the three
\* gen_sock (gen_range(100_000..1_000_000), by the least and the greatest
\* of them, by those of the control socket two of them) and the random
\* characters of the tempfile's name (by two of them).
Draws ==
    [qga : {"100000"}, qmp : {"100000", "999999"}, cmdout : {"999999"},
     init : {"aaaaa", "zzzzz"}]

machine_protocol_args(sock) ==
    <<Arg("-qmp", <<"unix:" \o sock, "server=on", "wait=off">>)>>

guest_agent_args(sock) ==
    <<Arg("-chardev", <<"socket", "path=" \o sock, "server=on", "wait=off",
                        "id=qga0">>),
      Arg("-device", <<"virtio-serial">>),
      Arg("-device", <<"virtserialport", "chardev=qga0",
                       "name=org.qemu.guest_agent.0">>)>>

virtio_serial_args(host_sock) ==
    <<Arg("--device", <<"virtio-serial">>),
      Arg("-chardev", <<"socket", "path=" \o host_sock, "server=on",
                        "wait=off", "id=cmdout">>),
      Arg("--device", <<"virtserialport", "chardev=cmdout",
                        "name=org.qemu.virtio_serial.0">>)>>

plan9_fs_args(host_shared, id, mount_tag, ro) ==
    <<Arg("-virtfs",
          <<"local", "id=" \o id,
            "path=" \o (IF host_shared = "" THEN "." ELSE host_shared),
            "mount_tag=" \o mount_tag, "security_model=none",
            "multidevs=remap">>
          \o (IF ro THEN <<"readonly=on">> ELSE <<>>))>>

\* uefi_firmware_args(bios); existing: the paths of OVMF_PATHS that exist.
FirstExisting(existing) ==
    IF \E i \in 1 .. Len(OVMF_PATHS) : OVMF_PATHS[i] \in existing
    THEN OVMF_PATHS[CHOOSE i \in 1 .. Len(OVMF_PATHS) :
                       /\ OVMF_PATHS[i] \in existing
                       /\ \A j \in 1 .. i - 1 : OVMF_PATHS[j] \notin existing]
    ELSE OVMF_PATHS[1]

uefi_firmware_args(bios, existing) ==
    IF bios # {} THEN <<Arg("-bios", <<CHOOSE b \in bios : TRUE>>)>>
    ELSE <<Arg("-bios", <<FirstExisting(existing)>>)>>

console_device(arch) == IF arch = "aarch64" THEN "ttyAMA0" ELSE "0"

\* kargs.split_whitespace(), of a string without whitespace
SplitWhitespace(kargs) == IF kargs = "" THEN <<>> ELSE <<kargs>>

\* kernel_args(kernel, arch, init, additional_kargs); the value of -append
\* is the command line, here by its words.
kernel_args(kernel, arch, init, additional_kargs) ==
    <<Arg("-kernel", <<kernel>>),
      Arg("-no-reboot", <<>>),
      Arg("-append",
          <<"rootfstype=9p", "rootflags=" \o MOUNT_OPTS_9P_FS, "rw",
            "earlyprintk=serial," \o console_device(arch) \o ",115200",
            "printk.devkmsg=on",
            "console=" \o console_device(arch) \o ",115200",
            "loglevel=7", "raid=noautodetect", "init=" \o init, "panic=-1">>
          \o (IF additional_kargs = {} THEN <<>>
              ELSE SplitWhitespace(CHOOSE k \in additional_kargs : TRUE)))>>

\* The exports of vm.mounts.values(): mounts are the values (struct Mount:
\* host_path, writable) in the order in which this HashMap iterates.
RECURSIVE MountExports(_)
MountExports(mounts) ==
    IF mounts = <<>> THEN <<>>
    ELSE plan9_fs_args(Head(mounts).host_path,
                       "mount" \o Hash(Head(mounts).host_path),
                       "mount" \o Hash(Head(mounts).host_path),
                       ~Head(mounts).writable)
         \o MountExports(Tail(mounts))

\* vmconfig_args(&target.vm), of a VMConfig with its default cpus and memory
\* and without extra_args.
vmconfig_args(mounts) ==
    <<Arg("-smp", <<"2">>), Arg("-m", <<"4G">>)>> \o MountExports(mounts)

\* ModeArgs that adds the firmware to every image target.
ModeArgsBiosAlways(t, arch, existing, init) ==
    IF t.image # {}
    THEN drive_args(CHOOSE i \in t.image : TRUE)
         \o uefi_firmware_args(t.bios, existing)
    ELSE IF t.kernel # {}
    THEN plan9_fs_args("/", "root", ROOTFS_9P_FS_MOUNT_TAG, FALSE)
         \o kernel_args(CHOOSE k \in t.kernel : TRUE, arch, init,
                        t.kernel_args)
    ELSE <<Arg("panic", <<>>)>>

\* Qemu::new: "Always ensure the rootfs is first": the arguments of the
\* target's mode; rootfs is the default "/".
ModeArgs(t, arch, existing, init) ==
    IF t.image # {}
    THEN drive_args(CHOOSE i \in t.image : TRUE)
         \o (IF t.uefi THEN uefi_firmware_args(t.bios, existing) ELSE <<>>)
    ELSE IF t.kernel # {}
    THEN plan9_fs_args("/", "root", ROOTFS_9P_FS_MOUNT_TAG, FALSE)
         \o kernel_args(CHOOSE k \in t.kernel : TRUE, arch, init,
                        t.kernel_args)
    ELSE <<Arg("panic", <<>>)>>

\* Qemu::new: every c.arg / c.args, in order.
\* env: the target's arch, host_supports_kvm(arch) and the OVMF paths that
\* exist; d: the random draws of this call.
QemuNewArgs(t, mounts, env, d) ==
    <<Arg("-nodefaults", <<>>), Arg("-display", <<"none">>),
      Arg("-serial", <<"stdio">>)>>
    \o kvm_args(env.arch, env.kvm) \o machine_args(env.arch)
    \o machine_protocol_args(gen_sock("qmp", d.qmp))
    \o guest_agent_args(gen_sock("qga", d.qga))
    \o virtio_serial_args(gen_sock("cmdout", d.cmdout))
    \o ModeArgs(t, env.arch, env.existing, gen_init(d.init))
    \o plan9_fs_args("host_shared", "shared", SHARED_9P_FS_MOUNT_TAG, FALSE)
    \o vmconfig_args(mounts)

\* The environments of a call of Qemu::new for target t; the OVMF paths are
\* probed for a uefi target without bios only.
Envs(t) ==
    [arch : Arches, kvm : BOOLEAN,
     existing : IF t.uefi /\ t.bios = {}
                THEN SUBSET {OVMF_PATHS[i] : i \in 1 .. Len(OVMF_PATHS)}
                ELSE {{}}]

\* Vmtest::new's validation of the target.
QnValidate ==
    /\ qnState = "new"
    /\ qnState' = IF ValidateTarget(0, qnTarget) = NoError THEN "validated"
                  ELSE "rejected"
    /\ UNCHANGED <<qnTarget, qnMounts, qnArgs, qnArgs2, qnGuest>>
    /\ UNCHANGED notQnVars

\* Qemu::new returns Ok(Self { process: c, .. }).
QnNew ==
    /\ qnState = "validated"
    /\ \E env \in Envs(qnTarget), d \in Draws :
          qnArgs' = QemuNewArgs(qnTarget, qnMounts, env, d)
    /\ qnState' = "built"
    /\ UNCHANGED <<qnTarget, qnMounts, qnArgs2, qnGuest>>
    /\ UNCHANGED notQnVars

\* Qemu::new is called once more for the same target, in the same
\* environment: the arguments of this second call are qnArgs2.
QnNewAgain ==
    /\ qnState = "built"
    /\ \E env \in Envs(qnTarget), d \in Draws :
          /\ qnArgs = QemuNewArgs(qnTarget, qnMounts, env, d)
          /\ \E d2 \in Draws :
                qnArgs2' = QemuNewArgs(qnTarget, qnMounts, env, d2)
    /\ qnState' = "rebuilt"
    /\ UNCHANGED <<qnTarget, qnMounts, qnArgs, qnGuest>>
    /\ UNCHANGED notQnVars

\* Qemu::new returns the error of gen_init.
QnNewErr ==
    /\ qnState = "validated"
    /\ qnState' = "failed"
    /\ UNCHANGED <<qnTarget, qnMounts, qnArgs, qnArgs2, qnGuest>>
    /\ UNCHANGED notQnVars

\* mount_in_guest that leaves the mount options alone.
mount_in_guest_never_ro(guest_path, mount_tag, ro) ==
    <<[cmd |-> "mkdir", args |-> <<"-p", guest_path>>],
      [cmd |-> "mount",
       args |-> <<"-t", "9p", "-o", MOUNT_OPTS_9P_FS, mount_tag,
                  guest_path>>]>>

\* mount_in_guest(qga, guest_path, mount_tag, ro), every command exiting
\* with 0: the commands given to run_in_vm, each by its program and its
\* arguments.
mount_in_guest(guest_path, mount_tag, ro) ==
    <<[cmd |-> "mkdir", args |-> <<"-p", guest_path>>],
      [cmd |-> "mount",
       args |-> <<"-t", "9p", "-o",
                  IF ro THEN MOUNT_OPTS_9P_FS \o ",ro" ELSE MOUNT_OPTS_9P_FS,
                  mount_tag, guest_path>>]>>

\* run: for (guest_path, mount) in &self.mounts, the clone of
\* target.vm.mounts.
RECURSIVE MountCalls(_)
MountCalls(mounts) ==
    IF mounts = <<>> THEN <<>>
    ELSE mount_in_guest(Head(mounts).guest_path,
                        "mount" \o Hash(Head(mounts).host_path),
                        ~Head(mounts).writable)
         \o MountCalls(Tail(mounts))

\* The setup stage of run (SetupStart to SetupEnd(Ok)), every mount
\* succeeding at once: the shared directory, then the entries of mounts.
QnRunSetup ==
    /\ qnState = "built"
    /\ qnGuest' = mount_in_guest(SHARED_9P_FS_MOUNT_PATH,
                                 SHARED_9P_FS_MOUNT_TAG, FALSE)
                  \o MountCalls(qnMounts)
    /\ qnState' = "mounted"
    /\ UNCHANGED <<qnTarget, qnMounts, qnArgs, qnArgs2>>
    /\ UNCHANGED notQnVars

\* The vm.mounts tables of at most n entries (guest path -> struct Mount:
\* host_path, writable), by their entries in the order of iteration; the
\* keys of a table differ.
RECURSIVE MountLists(_)
MountLists(n) ==
    IF n = 0 THEN {<<>>}
    ELSE MountLists(n - 1)
         \cup {Append(ms, [guest_path |-> "/g" \o ToString(n),
                           host_path |-> h, writable |-> w]) :
                  ms \in {l \in MountLists(n - 1) : Len(l) = n - 1},
                  h \in {"/a", "/b"}, w \in BOOLEAN}

InitArgs ==
    /\ RunIdle
    /\ nMounts = 0
    /\ VmtestIdle
    /\ UiIdle
    /\ GxIdle
    /\ GipIdle
    /\ RvIdle
    /\ StIdle
    /\ QgIdle
    /\ UdIdle
    /\ \E x \in Extras : qnTarget \in TargetsAt(0, x)
    /\ qnMounts \in MountLists(MaxVmMounts)
    /\ qnState = "new"
    /\ qnArgs = <<>>
    /\ qnArgs2 = <<>>
    /\ qnGuest = <<>>

NextArgs ==
    \/ QnValidate
    \/ QnNew
    \/ QnNewAgain
    \/ QnRunSetup
    \/ QnNewErr

SpecArgs == InitArgs /\ [][NextArgs]_vars

(***************************************************************************)
(* Properties of Qemu::new (under SpecArgs).                               *)
(***************************************************************************)
\* The arguments built with option opt, and those whose value has part.
ArgsOf(opt) == {i \in 1 .. Len(qnArgs) : qnArgs[i].opt = opt}
HasPart(i, part) == \E j \in 1 .. Len(qnArgs[i].val) : qnArgs[i].val[j] = part
Count(opt) == Cardinality(ArgsOf(opt))
BlkDevices == {i \in ArgsOf("-device") : HasPart(i, "virtio-blk-pci")}
RootExports ==
    {i \in ArgsOf("-virtfs") :
        HasPart(i, "mount_tag=" \o ROOTFS_9P_FS_MOUNT_TAG)}

\* The image block: one -drive, then its virtio-blk-pci device with
\* bootindex 1, and -bios exactly when uefi.
ImageBlock ==
    /\ Count("-drive") = 1
    /\ Cardinality(BlkDevices) = 1
    /\ \A i \in BlkDevices : HasPart(i, "bootindex=1")
    /\ Count("-bios") = (IF qnTarget.uefi THEN 1 ELSE 0)
NoImageBlock ==
    Count("-drive") = 0 /\ BlkDevices = {} /\ Count("-bios") = 0

\* The kernel block: the export of the rootfs with tag /dev/root, -kernel,
\* -no-reboot and -append.
KernelBlock ==
    /\ Cardinality(RootExports) = 1
    /\ Count("-kernel") = 1
    /\ Count("-no-reboot") = 1
    /\ Count("-append") = 1
NoKernelBlock ==
    /\ RootExports = {}
    /\ Count("-kernel") = 0
    /\ Count("-no-reboot") = 0
    /\ Count("-append") = 0

\* C20: the arguments Qemu::new builds for a validated target hold exactly
\* one of the image block and the kernel block: the image block (with -bios
\* if and only if uefi) and nothing of the kernel block for a target with an
\* image, the kernel block and nothing of the image block otherwise.
C20_ExactlyOneModeBlock ==
    qnState = "built" =>
        \/ qnTarget.image # {} /\ ImageBlock /\ NoKernelBlock
        \/ qnTarget.image = {} /\ KernelBlock /\ NoImageBlock

\* The arguments of a uefi image target have been built, with -bios.
C20_Witness ==
    /\ qnState = "built"
    /\ qnTarget.uefi
    /\ Count("-bios") = 1
    /\ Count("-drive") = 1

\* C21: two calls of Qemu::new for the same target, the same shared
\* directory and the same environment build the same arguments in the same
\* order.
C21_SameArgsTwice ==
    qnState = "rebuilt" => qnArgs2 = qnArgs

\* The exports (-virtfs) in the order of the arguments, the export emitted
\* for the n-th entry of mounts (the root export of a kernel target and the
\* export of the shared directory come first), and the export with a given
\* id.
Exports == SelectSeq(qnArgs, LAMBDA arg : arg.opt = "-virtfs")
PartOf(export, key) ==
    CHOOSE part \in {export.val[j] : j \in 1 .. Len(export.val)} :
        \E v \in {"shared", "root", SHARED_9P_FS_MOUNT_TAG,
                   ROOTFS_9P_FS_MOUNT_TAG, "mount#/a", "mount#/b"} :
            part = key \o v
ExportOfEntry(n) == Exports[Len(Exports) - Len(qnMounts) + n]
ExportIsRo(export) ==
    \E j \in 1 .. Len(export.val) : export.val[j] = "readonly=on"
\* The mount commands executed in the guest, and the one for a guest path.
GuestMounts == SelectSeq(qnGuest, LAMBDA c : c.cmd = "mount")
MountOf(guest_path) ==
    CHOOSE i \in 1 .. Len(GuestMounts) : GuestMounts[i].args[6] = guest_path

\* C31: for every entry of mounts, the tag of the in-guest mount command is
\* the mount_tag of the export emitted for the entry, "mount" + hash of its
\* host_path, and the export is read-only and the mount has the option ",ro"
\* exactly when the entry is not writable; the shared directory is exported
\* and mounted under one tag.
C31_MountTagsMatchExports ==
    qnState = "mounted" =>
        /\ \A n \in 1 .. Len(qnMounts) :
              LET m == qnMounts[n]
                  c == GuestMounts[MountOf(m.guest_path)]
              IN  /\ "mount_tag=" \o c.args[5]
                        = PartOf(ExportOfEntry(n), "mount_tag=")
                  /\ c.args[5] = "mount" \o Hash(m.host_path)
                  /\ ExportIsRo(ExportOfEntry(n)) <=> ~m.writable
                  /\ c.args[4] = MOUNT_OPTS_9P_FS \o ",ro" <=> ~m.writable
                  /\ c.args[4] = MOUNT_OPTS_9P_FS <=> m.writable
        /\ \E i \in 1 .. Len(Exports) :
              /\ PartOf(Exports[i], "id=") = "id=shared"
              /\ "mount_tag="
                    \o GuestMounts[MountOf(SHARED_9P_FS_MOUNT_PATH)].args[5]
                    = PartOf(Exports[i], "mount_tag=")

\* The setup stage has mounted a read-only and a writable entry.
C31_Witness ==
    /\ qnState = "mounted"
    /\ Len(qnMounts) = 2
    /\ ~qnMounts[1].writable
    /\ qnMounts[2].writable
    /\ Len(GuestMounts) = 3

\* C32: for a kernel target, no export is emitted for an entry of mounts (the
\* exports are those of the rootfs and of the shared directory) and no
\* mkdir or mount is executed in the guest for one (the commands are those
\* of the shared directory).
C32_MountsOnlyInImageMode ==
    (qnState = "mounted" /\ qnTarget.image = {}) =>
        /\ Len(Exports) = 2
        /\ qnGuest = mount_in_guest(SHARED_9P_FS_MOUNT_PATH,
                                    SHARED_9P_FS_MOUNT_TAG, FALSE)

\* C40: the exports in the arguments have pairwise distinct ids and pairwise
\* distinct mount tags, and each in-guest mount command addresses exactly
\* one export.
C40_ExportIdsAndTagsDistinct ==
    qnState = "mounted" =>
        /\ \A i, j \in 1 .. Len(Exports) :
              i # j =>
                 /\ PartOf(Exports[i], "id=") # PartOf(Exports[j], "id=")
                 /\ PartOf(Exports[i], "mount_tag=")
                       # PartOf(Exports[j], "mount_tag=")
        /\ \A k \in 1 .. Len(GuestMounts) :
              Cardinality({i \in 1 .. Len(Exports) :
                              PartOf(Exports[i], "mount_tag=")
                                 = "mount_tag=" \o GuestMounts[k].args[5]})
                 = 1

(***************************************************************************)
(* One call of run_in_vm (src/src/qemu.rs): guest-exec, the polling loop   *)
(* of guest-exec-status, and the output of the reply's stdout and stderr.  *)
(* A line is [s, n]: the n-th line of stream s ("out" or "err"); n = 0 is  *)
(* the stream's truncation marker.  A reply's out_data and err_data are    *)
(* given by their lines, a missing one by no line; out_truncated and       *)
(* err_truncated are TRUE for Some(true).                                  *)
(***************************************************************************)
\* The first n lines of stream s.
LinesOf(s, n) == [i \in 1 .. n |-> [s |-> s, n |-> i]]

\* The replies of guest-exec-status with exited = true.
Statuses ==
    [exitcode : ExitCodes \ {Some(MountRetryCode)},
     out_data : {LinesOf("out", n) : n \in 0 .. MaxLines},
     out_truncated : BOOLEAN,
     err_data : {LinesOf("err", n) : n \in 0 .. MaxLines},
     err_truncated : BOOLEAN]

\* qga.guest_exec(qga_args).context("Failed to QGA guest-exec")?
RvGuestExec ==
    /\ rvPc = "exec"
    /\ \E ok \in BOOLEAN :
          IF ok THEN rvPc' = "poll" /\ UNCHANGED rvRes
          ELSE /\ rvPc' = "ret"
               /\ rvRes' = [ok |-> FALSE, code |-> 0,
                            ctx |-> "Failed to QGA guest-exec"]
    /\ UNCHANGED <<rvPeriod, rvSleeps, rvLate, rvWarned, rvStatus, rvOut>>
    /\ UNCHANGED notRvVars

\* qga.guest_exec_status(pid).context("Failed to QGA guest-exec-status")?
RvPollErr ==
    /\ rvPc = "poll"
    /\ rvPc' = "ret"
    /\ rvRes' = [ok |-> FALSE, code |-> 0,
                 ctx |-> "Failed to QGA guest-exec-status"]
    /\ UNCHANGED <<rvPeriod, rvSleeps, rvLate, rvWarned, rvStatus, rvOut>>
    /\ UNCHANGED notRvVars

\* if status.exited { break status; }
RvPollExited ==
    /\ rvPc = "poll"
    /\ rvStatus' \in Statuses
    /\ rvPc' = "flush_out"
    /\ UNCHANGED <<rvPeriod, rvSleeps, rvLate, rvWarned, rvOut, rvRes>>
    /\ UNCHANGED notRvVars

\* RvPollRunning that doubles the period after every sleep.
RvPollRunningNoCap ==
    /\ rvPc = "poll"
    /\ Len(rvSleeps) < MaxPolls
    /\ \E late \in {b \in BOOLEAN : rvLate => b} :
          /\ rvLate' = late
          /\ rvWarned' = (rvWarned \/ late)
    /\ rvSleeps' = Append(rvSleeps, rvPeriod)
    /\ rvPeriod' = rvPeriod * 2
    /\ UNCHANGED <<rvPc, rvStatus, rvOut, rvRes>>
    /\ UNCHANGED notRvVars

\* RvPollRunning that gives up once 30 s have elapsed.
RvPollRunningGivesUp ==
    /\ rvPc = "poll"
    /\ Len(rvSleeps) < MaxPolls
    /\ \E late \in {b \in BOOLEAN : rvLate => b} :
          /\ rvLate' = late
          /\ rvWarned' = (rvWarned \/ late)
          /\ rvPc' = IF late THEN "ret" ELSE "poll"
          /\ rvRes' = IF late
                      THEN [ok |-> FALSE, code |-> 0, ctx |-> "timed out"]
                      ELSE rvRes
    /\ rvSleeps' = Append(rvSleeps, rvPeriod)
    /\ rvPeriod' = IF rvPeriod <= PollCap \div 2 THEN rvPeriod * 2
                   ELSE rvPeriod
    /\ UNCHANGED <<rvStatus, rvOut>>
    /\ UNCHANGED notRvVars

\* The command has not exited: a warning if 30 s have elapsed since the loop
\* began (the requests and the sleeps take time: late can turn TRUE at any
\* poll), thread::sleep(period), and the period doubles while it is at most
\* half of 5 s.
RvPollRunning ==
    /\ rvPc = "poll"
    /\ Len(rvSleeps) < MaxPolls
    /\ \E late \in {b \in BOOLEAN : rvLate => b} :
          /\ rvLate' = late
          /\ rvWarned' = (rvWarned \/ late)
    /\ rvSleeps' = Append(rvSleeps, rvPeriod)
    /\ rvPeriod' = IF rvPeriod <= PollCap \div 2 THEN rvPeriod * 2
                   ELSE rvPeriod
    /\ UNCHANGED <<rvPc, rvStatus, rvOut, rvRes>>
    /\ UNCHANGED notRvVars

\* lines().for_each(|line| output(line.to_string())): the next line of
\* out_data (s = "out") or err_data (s = "err").
RvFlushLine(s) ==
    /\ rvPc = "flush_" \o s
    /\ LET sent == Len(SelectSeq(rvOut, LAMBDA l : l.s = s)) IN
        /\ sent < Len(rvStatus[s \o "_data"])
        /\ rvOut' = Append(rvOut, rvStatus[s \o "_data"][sent + 1])
    /\ UNCHANGED <<rvPc, rvPeriod, rvSleeps, rvLate, rvWarned, rvStatus,
                   rvRes>>
    /\ UNCHANGED notRvVars

\* RvFlushMarker that gives the truncation marker for every reply.
RvFlushMarkerAlways(s) ==
    /\ rvPc = "flush_" \o s
    /\ Len(SelectSeq(rvOut, LAMBDA l : l.s = s)) = Len(rvStatus[s \o "_data"])
    /\ rvOut' = Append(rvOut, [s |-> s, n |-> 0])
    /\ rvPc' = IF s = "out" THEN "flush_err" ELSE "ret"
    /\ rvRes' = IF s = "out" THEN rvRes
                ELSE [ok |-> TRUE, code |-> UnwrapOr0(rvStatus.exitcode),
                      ctx |-> "-"]
    /\ UNCHANGED <<rvPeriod, rvSleeps, rvLate, rvWarned, rvStatus>>
    /\ UNCHANGED notRvVars

\* The lines of the stream are out: output("<stdout truncation>") if
\* out_truncated is Some(true), then the stderr; after the stderr and its
\* marker, Ok(status.exitcode.unwrap_or(0)).
RvFlushMarker(s) ==
    /\ rvPc = "flush_" \o s
    /\ Len(SelectSeq(rvOut, LAMBDA l : l.s = s)) = Len(rvStatus[s \o "_data"])
    /\ rvOut' = IF rvStatus[s \o "_truncated"]
                THEN Append(rvOut, [s |-> s, n |-> 0]) ELSE rvOut
    /\ rvPc' = IF s = "out" THEN "flush_err" ELSE "ret"
    /\ rvRes' = IF s = "out" THEN rvRes
                ELSE [ok |-> TRUE, code |-> UnwrapOr0(rvStatus.exitcode),
                      ctx |-> "-"]
    /\ UNCHANGED <<rvPeriod, rvSleeps, rvLate, rvWarned, rvStatus>>
    /\ UNCHANGED notRvVars

InitRv ==
    /\ RunIdle
    /\ nMounts = 0
    /\ VmtestIdle
    /\ UiIdle
    /\ GxIdle
    /\ GipIdle
    /\ QnIdle
    /\ RvIdle
    /\ StIdle
    /\ QgIdle
    /\ UdIdle

NextRv ==
    \/ RvGuestExec
    \/ RvPollErr
    \/ RvPollExited
    \/ RvPollRunning
    \/ RvFlushLine("out")
    \/ RvFlushMarker("out")
    \/ RvFlushLine("err")
    \/ RvFlushMarker("err")

SpecRv == InitRv /\ [][NextRv]_vars

(***************************************************************************)
(* Properties of run_in_vm (under SpecRv).                                 *)
(***************************************************************************)
\* The marker of stream s if truncated.
MarkerIf(s, truncated) == IF truncated THEN <<[s |-> s, n |-> 0]>> ELSE <<>>

\* C28: run_in_vm returns Ok only after it has given to output every line of
\* the reply's stdout, then the stdout truncation marker if and only if
\* out_truncated, then every line of the reply's stderr, then the stderr
\* truncation marker if and only if err_truncated; at no time is a stderr
\* line or marker out before a stdout line or marker.
C28_StdoutThenStderr ==
    /\ (rvPc = "ret" /\ rvRes.ok) =>
          rvOut = rvStatus.out_data
                    \o MarkerIf("out", rvStatus.out_truncated)
                    \o rvStatus.err_data
                    \o MarkerIf("err", rvStatus.err_truncated)
    /\ \A i \in 1 .. Len(rvOut) : \A j \in i + 1 .. Len(rvOut) :
          rvOut[i].s = "err" => rvOut[j].s = "err"

\* run_in_vm has returned after a reply with MaxLines lines of stdout,
\* truncated, and a line of stderr, not truncated.
C28_Witness ==
    /\ rvPc = "ret"
    /\ rvRes.ok
    /\ Len(rvStatus.out_data) = MaxLines
    /\ rvStatus.out_truncated
    /\ Len(rvStatus.err_data) = 1
    /\ ~rvStatus.err_truncated
    /\ Len(rvOut) = MaxLines + 2

\* C29: the first sleep of the polling loop is 200 ms; each later sleep is
\* the one before it or twice the one before it; no sleep is longer than
\* 5 s.
C29_PollPeriodBackoff ==
    /\ rvSleeps # <<>> => rvSleeps[1] = PollStart
    /\ \A i \in 1 .. Len(rvSleeps) - 1 :
          rvSleeps[i + 1] \in {rvSleeps[i], 2 * rvSleeps[i]}
    /\ \A i \in 1 .. Len(rvSleeps) : rvSleeps[i] <= PollCap

\* The loop has slept MaxPolls times and the period has stopped growing.
C29_Witness ==
    /\ Len(rvSleeps) = MaxPolls
    /\ rvSleeps[MaxPolls] = rvSleeps[MaxPolls - 1]
    /\ rvSleeps[2] = 2 * rvSleeps[1]

\* C30: a poll that finds the command running keeps polling, also after 30 s,
\* when it logs the warning; the polling loop is left only with a reply that
\* has exited = true, after which run_in_vm returns the reply's exit code, or
\* with the error of a failed guest-exec-status.
C30_PollingNeverGivesUp ==
    /\ [][(rvPc = "poll" /\ rvPc' # "poll") =>
              \/ rvPc' = "flush_out" /\ rvStatus' \in Statuses
              \/ /\ rvPc' = "ret"
                 /\ rvRes' = [ok |-> FALSE, code |-> 0,
                              ctx |-> "Failed to QGA guest-exec-status"]]_vars
    /\ [][(rvPc = "poll" /\ rvLate' /\ rvSleeps' # rvSleeps) =>
              rvWarned' /\ rvPc' = "poll"]_vars
    /\ []((rvPc = "ret" /\ rvRes.ok /\ rvStatus.exitcode.some) =>
              rvRes.code = rvStatus.exitcode.v)

\* After 30 s and the warning the loop has polled again, the command has
\* exited with 1 and run_in_vm has returned 1.
C30_Witness ==
    /\ rvWarned
    /\ rvPc = "ret"
    /\ rvRes = [ok |-> TRUE, code |-> 1, ctx |-> "-"]

(***************************************************************************)
(* A streamer thread (src/src/qemu.rs): stream_child_output reads the      *)
(* hypervisor's stdout and pushes Output::Boot, stream_command_output      *)
(* reads the command-output socket and pushes Output::Command.  A stream   *)
(* is the sequence of the characters its peer writes before it closes;     *)
(* "?" is a byte sequence that is not valid UTF-8.                         *)
(***************************************************************************)
MaxChars == 3
Chars == {"a", "\n", "?"}

RECURSIVE Inputs(_)
Inputs(n) ==
    IF n = 0 THEN {<<>>}
    ELSE Inputs(n - 1)
         \cup {Append(i, c) : i \in {l \in Inputs(n - 1) : Len(l) = n - 1},
                              c \in Chars}

\* BufRead::read_line: the characters up to and including the first newline,
\* or up to the end of the stream.
LineEnd(in) ==
    IF \E i \in 1 .. Len(in) : in[i] = "\n"
    THEN CHOOSE i \in 1 .. Len(in) :
            in[i] = "\n" /\ \A j \in 1 .. i - 1 : in[j] # "\n"
    ELSE Len(in)
ReadLine(in) == SubSeq(in, 1, LineEnd(in))
AfterLine(in) == SubSeq(in, LineEnd(in) + 1, Len(in))
ValidUtf8(line) == \A i \in 1 .. Len(line) : line[i] # "?"

\* String::pop: without its last character.
Pop(line) == SubSeq(line, 1, Len(line) - 1)

\* The line a streamer pushes for the line it read: stream_child_output
\* removes the last character, stream_command_output removes it if it is a
\* newline.
Pushed(kind, line) ==
    IF kind = "boot" THEN Pop(line)
    ELSE IF line[Len(line)] = "\n" THEN Pop(line) ELSE line

\* reader.read_line(&mut line) returns Ok(n), n > 0, and the line is pushed,
\* or Err for a line that is not valid UTF-8: the line is consumed, the
\* error is logged and the loop goes on.
StReadLine ==
    /\ stPc = "reading"
    /\ ~stBroken
    /\ stIn # <<>>
    /\ stIn' = AfterLine(stIn)
    /\ IF ValidUtf8(ReadLine(stIn))
       THEN /\ stRead' = Append(stRead, ReadLine(stIn))
            /\ stOut' = Append(stOut, Pushed(stKind, ReadLine(stIn)))
       ELSE UNCHANGED <<stRead, stOut>>
    /\ UNCHANGED <<stKind, stPc, stBroken, stErrs>>
    /\ UNCHANGED notStVars

\* read_line returns Ok(0), the peer has closed the stream: break.  The
\* thread ends and drops what it captured, its sender included.
StEof ==
    /\ stPc = "reading"
    /\ ~stBroken
    /\ stIn = <<>>
    /\ stPc' = "stopped"
    /\ UNCHANGED <<stKind, stIn, stRead, stOut, stBroken, stErrs>>
    /\ UNCHANGED notStVars

\* read_line returns Err on a stream whose reads all fail: the error is
\* logged and the loop goes on.
StReadErr ==
    /\ stPc = "reading"
    /\ stBroken
    /\ stErrs' = (stErrs + 1) % 2
    /\ UNCHANGED <<stKind, stIn, stPc, stRead, stOut, stBroken>>
    /\ UNCHANGED notStVars

\* The stream's file descriptor starts to fail every read.
StBreak ==
    /\ stPc = "reading"
    /\ ~stBroken
    /\ stBroken' = TRUE
    /\ UNCHANGED <<stKind, stIn, stPc, stRead, stOut, stErrs>>
    /\ UNCHANGED notStVars

InitSt ==
    /\ RunIdle
    /\ nMounts = 0
    /\ VmtestIdle
    /\ UiIdle
    /\ GxIdle
    /\ GipIdle
    /\ QnIdle
    /\ RvIdle
    /\ QgIdle
    /\ UdIdle
    /\ stKind \in {"boot", "command"}
    /\ stIn \in Inputs(MaxChars)
    /\ stPc = "reading"
    /\ stRead = <<>>
    /\ stOut = <<>>
    /\ stBroken = FALSE
    /\ stErrs = 0

StStep == StReadLine \/ StEof \/ StReadErr

NextSt ==
    \/ StReadLine
    \/ StEof
    \/ StReadErr
    \/ StBreak

SpecSt == InitSt /\ [][NextSt]_vars

\* The streamer thread is scheduled.
SpecStFair == SpecSt /\ WF_vars(StStep)

(***************************************************************************)
(* Properties of the streamers (under SpecSt and SpecStFair).              *)
(***************************************************************************)
WithoutNewline(line) ==
    IF line[Len(line)] = "\n" THEN SubSeq(line, 1, Len(line) - 1) ELSE line

\* C33: the lines pushed are the lines read, in the order read, each without
\* its trailing newline and otherwise unchanged, a last line without newline
\* included.
C33_LinesPushedUnchanged ==
    /\ Len(stOut) = Len(stRead)
    /\ \A i \in 1 .. Len(stRead) : stOut[i] = WithoutNewline(stRead[i])

\* C34: a streamer eventually stops, on a stream that its peer closed as on
\* one whose reads keep failing.
C34_StreamerStops ==
    <>(stPc = "stopped")

(***************************************************************************)
(* QgaWrapper (src/src/qga.rs): the caller's execute and the worker        *)
(* thread, joined by the request channel and the response channel.  A      *)
(* request is [id, kind], id numbering the calls of execute; a response is *)
(* [to, kind, ok]: the worker's answer to request to, Ok(kind) or Err.     *)
(***************************************************************************)
MaxReqs == 4

\* QgaWrapper::execute: self.send_req.send(cmd).  The first request is the
\* guest_sync of QgaWrapper::new, the later ones are guest_exec and
\* guest_exec_status.
QgExecuteSend(kind) ==
    /\ qgPc = "idle"
    /\ qgSent < MaxReqs
    /\ kind = "GuestSync" <=> qgSent = 0
    /\ qgSent' = qgSent + 1
    /\ qgCur' = [id |-> qgSent + 1, kind |-> kind]
    /\ qgReqs' = Append(qgReqs, [id |-> qgSent + 1, kind |-> kind])
    /\ qgPc' = "waiting"
    /\ UNCHANGED <<qgResps, qgGot>>
    /\ UNCHANGED notQgVars

\* worker: recv_req.recv() gives a request, the agent is asked, and the
\* response is sent whether or not the caller still waits for it.
QgWorker ==
    /\ qgReqs # <<>>
    /\ qgReqs' = Tail(qgReqs)
    /\ \E ok \in BOOLEAN :
          qgResps' = Append(qgResps, [to |-> Head(qgReqs).id,
                                      kind |-> Head(qgReqs).kind, ok |-> ok])
    /\ UNCHANGED <<qgPc, qgCur, qgSent, qgGot>>
    /\ UNCHANGED notQgVars

\* execute: self.recv_resp.recv_timeout(timeout) returns Ok(r), the oldest
\* response in the channel.  guest_exec and guest_exec_status panic
\* ("Impossible return") on an Ok response of another kind; a failed
\* guest_sync makes QgaWrapper::new fail.
QgExecuteRecv ==
    /\ qgPc = "waiting"
    /\ qgResps # <<>>
    /\ qgResps' = Tail(qgResps)
    /\ qgGot' = Append(qgGot, [req |-> qgCur.id, resp |-> Head(qgResps).to])
    /\ qgPc' = IF qgCur.kind = "GuestSync"
               THEN IF Head(qgResps).ok THEN "idle" ELSE "dropped"
               ELSE IF Head(qgResps).ok /\ Head(qgResps).kind # qgCur.kind
               THEN "panicked"
               ELSE "idle"
    /\ UNCHANGED <<qgCur, qgSent, qgReqs>>
    /\ UNCHANGED notQgVars

\* execute: recv_timeout returns Err(Timeout), "Timed out waiting for QGA".
\* guest_exec waits with Duration::MAX, guest_exec_status 5 s, guest_sync
\* the timeout of QgaWrapper::new.
QgExecuteTimeout ==
    /\ qgPc = "waiting"
    /\ qgCur.kind # "GuestExec"
    /\ qgResps = <<>>
    /\ qgPc' = IF qgCur.kind = "GuestSync" THEN "dropped" ELSE "idle"
    /\ UNCHANGED <<qgCur, qgSent, qgReqs, qgResps, qgGot>>
    /\ UNCHANGED notQgVars

InitQg ==
    /\ RunIdle
    /\ nMounts = 0
    /\ VmtestIdle
    /\ UiIdle
    /\ GxIdle
    /\ GipIdle
    /\ QnIdle
    /\ RvIdle
    /\ StIdle
    /\ UdIdle
    /\ QgIdle

NextQg ==
    \/ \E kind \in {"GuestSync", "GuestExec", "GuestExecStatus"} :
          QgExecuteSend(kind)
    \/ QgWorker
    \/ QgExecuteRecv
    \/ QgExecuteTimeout

SpecQg == InitQg /\ [][NextQg]_vars

(***************************************************************************)
(* Properties of QgaWrapper (under SpecQg).                                *)
(***************************************************************************)
\* C36: the response execute returns for a request is the worker's response
\* to that request, also after an earlier request timed out, and guest_exec
\* and guest_exec_status never reach their panic.
C36_ResponseMatchesRequest ==
    /\ \A i \in 1 .. Len(qgGot) : qgGot[i].resp = qgGot[i].req
    /\ qgPc # "panicked"

(***************************************************************************)
(* One call of connect_to_uds (src/src/qemu.rs), for the control socket    *)
(* ("qmp") or the command-output socket ("cmdout"), while the sockets that *)
(* accept a connection come and go.                                        *)
(***************************************************************************)
MaxTries == 2

\* The loop's UnixStream::connect(path): Ok(stream) is returned; after a
\* failure the thread sleeps 50 ms and tries again.
UdsAttempt ==
    /\ udPc = "loop"
    /\ IF udPath \in udLive
       THEN /\ udRes' = udPath
            /\ udPc' = "done"
            /\ UNCHANGED udTries
       ELSE /\ udTries < MaxTries
            /\ udTries' = udTries + 1
            /\ UNCHANGED <<udRes, udPc>>
    /\ UNCHANGED <<udPath, udLive>>
    /\ UNCHANGED notUdVars

\* now.elapsed() >= timeout: the loop is left.
UdsDeadline ==
    /\ udPc = "loop"
    /\ udTries >= 1
    /\ udPc' = "final"
    /\ UNCHANGED <<udPath, udLive, udTries, udRes>>
    /\ UNCHANGED notUdVars

\* "Run one final time to return the real error":
\* UnixStream::connect(&self.qmp_sock).map_err(..)
UdsFinal ==
    /\ udPc = "final"
    /\ udRes' = IF "qmp" \in udLive THEN "qmp" ELSE "err"
    /\ udPc' = "done"
    /\ UNCHANGED <<udPath, udLive, udTries>>
    /\ UNCHANGED notUdVars

\* A socket starts or stops to accept connections (the hypervisor creates
\* it or exits, the file is removed).
UdsEnv ==
    /\ udPc # "done"
    /\ \E f \in SocketFiles :
          udLive' = IF f \in udLive THEN udLive \ {f} ELSE udLive \cup {f}
    /\ UNCHANGED <<udPath, udPc, udTries, udRes>>
    /\ UNCHANGED notUdVars

InitUds ==
    /\ RunIdle
    /\ nMounts = 0
    /\ VmtestIdle
    /\ UiIdle
    /\ GxIdle
    /\ GipIdle
    /\ QnIdle
    /\ RvIdle
    /\ StIdle
    /\ QgIdle
    /\ udPath \in {"qmp", "cmdout"}
    /\ udLive \in SUBSET SocketFiles
    /\ udPc = "loop"
    /\ udTries = 0
    /\ udRes = "-"

NextUds ==
    \/ UdsAttempt
    \/ UdsDeadline
    \/ UdsFinal
    \/ UdsEnv

SpecUds == InitUds /\ [][NextUds]_vars

(***************************************************************************)
(* Properties of connect_to_uds (under SpecUds).                           *)
(***************************************************************************)
\* C39: connect_to_uds(path) returns a stream connected to path or an error,
\* from the attempts of its loop as from its final attempt; a stream to
\* another socket is never returned.
C39_ConnectsOnlyRequestedPath ==
    udPc = "done" => udRes \in {udPath, "err"}

====
